---------------------------- MODULE Spec2Model ----------------------------
(***************************************************************************)
(* A model of the workpacket pipeline execution engine.                    *)
(*                                                                         *)
(* Part 1: the stage orchestrator, runPipeline (src/src/orchestrator.ts). *)
(* One run of runPipeline is a sequential process.  Its steps are the      *)
(* places where the run touches the world: a write to the output           *)
(* directory, the invocation of a stage operation, and the settling of     *)
(* that invocation.  In-memory assignments are part of the step that       *)
(* follows them (nothing can observe them earlier).                        *)
(*                                                                         *)
(* Text (messages, log lines) is a sequence of string tokens, so that the  *)
(* string templates of the source are modelled as what they build.         *)
(***************************************************************************)
EXTENDS Integers, Sequences, FiniteSets, TLC

(***************************************************************************)
(* Bounds of the model.                                                    *)
(***************************************************************************)
MaxStages == 3

(***************************************************************************)
(* Program constants.                                                      *)
(***************************************************************************)
\* Faulty variant: one retry too many.
MAX_RETRIES_Three == 2 + 1

\* line 22: 3 total attempts (1 initial + 2 retries)
MAX_RETRIES == 2

\* Faulty variant: the bound compared off by one.
RetriesExhausted_OffByOne(n) == n > MAX_RETRIES + 1

\* line 97: attempts > MAX_RETRIES
RetriesExhausted(n) == n > MAX_RETRIES

\* StageName, in the order the build command runs the stages.
StageNames ==
  <<"ingest", "extract_requirements", "map_concepts", "explain_concepts",
    "generate_packet">>

\* The artifact base name each stage declares.
ArtifactBase ==
  <<"chunks", "requirements", "concepts", "primer", "packet">>

Extensions == {".json", ".md"}

(***************************************************************************)
(* Optional values (a field that may be undefined, a file that may not     *)
(* exist) are sequences of length 0 or 1.                                  *)
(***************************************************************************)
None == << >>
Some(x) == << x >>
IsSome(o) == Len(o) = 1
Get(o) == o[1]

(***************************************************************************)
(* Text helpers.                                                           *)
(***************************************************************************)
RECURSIVE Join(_, _)
\* Array.prototype.join on an array of texts.
Join(texts, sep) ==
  IF Len(texts) = 0 THEN << >>
  ELSE IF Len(texts) = 1 THEN texts[1]
  ELSE texts[1] \o sep \o Join(Tail(texts), sep)

\* A number inside a template literal.
NumText(n) ==
  CASE n = 0 -> "0" [] n = 1 -> "1" [] n = 2 -> "2" [] n = 3 -> "3"
    [] n = 4 -> "4" [] n = 5 -> "5" [] n = 6 -> "6" [] OTHER -> "many"

(***************************************************************************)
(* Values that flow through the pipeline.  A stage operation is opaque: it *)
(* returns one of these candidates or raises.  The stage contract is       *)
(* opaque too: it accepts some candidates, returning the parsed            *)
(* (normalised) data, which differs from the candidate (zod strips unknown *)
(* keys and applies defaults), and rejects the others with a list of       *)
(* issues.                                                                 *)
(***************************************************************************)
ValidCandidates == {"s_raw", "o_raw"}
InvalidCandidates == {"bad_a", "bad_b"}
Candidates == ValidCandidates \cup InvalidCandidates

\* typeof
TypeOf(v) ==
  CASE v \in {"s_raw", "s_norm", "primer"} -> "string"
    [] v = "undefined" -> "undefined"
    [] OTHER -> "object"

Normalize(v) ==
  CASE v = "s_raw" -> "s_norm"
    [] v = "o_raw" -> "o_norm"
    [] OTHER -> v

IssuesOf(v) ==
  CASE v = "bad_a" ->
         << [path |-> <<"required_field">>, message |-> "Required"] >>
    [] v = "bad_b" ->
         << [path |-> <<"items", "0">>, message |-> "Expected string, received number"],
            [path |-> << >>, message |-> "Unrecognized key(s) in object"] >>
    [] OTHER -> << >>

\* stage.outputSchema.safeParse(output)
SafeParse(v) ==
  IF v \in ValidCandidates
    THEN [success |-> TRUE, data |-> Normalize(v), issues |-> << >>]
    ELSE [success |-> FALSE, data |-> "undefined", issues |-> IssuesOf(v)]

\* What a stage operation can raise: an Error object (message is its
\* .message, text is String(error)), or any other value (no .message).
Throwables ==
  { [isError |-> TRUE, message |-> <<"stage exploded">>,
     text |-> <<"Error: ", "stage exploded">>],
    [isError |-> FALSE, message |-> <<"undefined">>,
     text |-> <<"plain failure">>] }

\* error instanceof Error ? error.message : String(error)
MessageOf(error) == IF error.isError THEN error.message ELSE error.text

\* validationResult.error.issues.map(i => `${i.path.join(".")}: ${i.message}`).join("; ")
IssueText(i) == Join([k \in 1..Len(i.path) |-> <<i.path[k]>>], <<".">>) \o <<": ", i.message>>

\* Faulty variant: only the first issue is reported.
IssueSummary_FirstOnly(issues) == IssueText(issues[1])

IssueSummary(issues) ==
  Join([k \in 1..Len(issues) |-> IssueText(issues[k])], <<"; ">>)

(***************************************************************************)
(* The output directory.                                                   *)
(***************************************************************************)
OtherFile == [base |-> "notes", ext |-> ".txt"]

AllFiles ==
  { [base |-> ArtifactBase[i], ext |-> e] :
      i \in 1..Len(ArtifactBase), e \in Extensions } \cup {OtherFile}

\* What a directory left by an earlier run holds.
StaleContent == [fmt |-> "stale", val |-> "old"]
StaleLine == <<"Pipeline completed successfully">>
StaleMetadata ==
  [run_id |-> "run-old", assignment_id |-> "a1", started_at |-> "t-old",
   completed_at |-> Some("t-old-end"), stages_completed |-> <<"ingest">>,
   status |-> "completed", error |-> None]

\* Faulty variant: every artifact is taken to be structured.
EndsWithJson_Always(filename) == filename.ext \in Extensions

\* stage.outputFilename.endsWith(".json")
EndsWithJson(filename) == filename.ext = ".json"

\* JSON.stringify(validatedOutput, null, 2)
JsonStringify(v) == [fmt |-> "json", val |-> v]
\* the string itself, written as it is
Literal(v) == [fmt |-> "text", val |-> v]

VARIABLES
  stages,          \* the PipelineStage list given to runPipeline
  initialInput,    \* the initialInput argument
  pc,              \* the run's position in runPipeline
  idx,             \* position of the for loop in stages (1-based)
  attempts,        \* local `attempts`
  currentInput,    \* local `currentInput`
  output,          \* local `output`
  validatedOutput, \* local `validatedOutput`
  issues,          \* validationResult.error.issues of the last failed parse
  thrown,          \* the value caught by the catch clause (optional)
  metadata,        \* the in-memory MutableRunMetadata
  runJson,         \* <output_dir>/run.json (optional)
  runLog,          \* <output_dir>/run.log (optional): its lines
  files,           \* every other file of <output_dir> (each optional)
  calls,           \* history: how many times each stage operation was invoked
  args,            \* history: the inputs each stage operation was invoked with
  passedData,      \* history: the parsed data of each stage's accepted candidate
  outcome,         \* history: how the run ended
  initialFiles     \* history: `files` when runPipeline was called

\* The other parts of the engine, each idle while a pipeline run is studied.
VARIABLES
  chunker,         \* the chunking of one file (Part 2)
  ingest,          \* executions of the ingest stage (Part 3)
  multi,           \* two pipeline runs side by side (Part 4)
  query,           \* one call of buildDynamicQuery (Part 5)
  store,           \* the content index (Part 6)
  generation       \* a run of one generation stage (Part 8)

Off == [phase |-> "off"]
outside == <<chunker, ingest, multi, query, store, generation>>
OutsideOff ==
  /\ chunker = Off /\ ingest = Off /\ multi = Off /\ query = Off /\ store = Off
  /\ generation = Off

config == <<stages, initialInput>>
locals == <<pc, idx, attempts, currentInput, output, validatedOutput, issues, thrown>>
disk == <<runJson, runLog, files>>
history == <<calls, args, passedData, outcome, initialFiles>>
run == <<config, locals, metadata, disk, history>>
vars == <<run, outside>>

NumStages == Len(stages)
Stage == stages[idx]

StageList(n, exts) ==
  [i \in 1..n |->
     [name |-> StageNames[i],
      outputFilename |-> [base |-> ArtifactBase[i], ext |-> exts[i]]]]

\* How the commands call runPipeline: build and ingest remove the output
\* directory first and give no initial input; packet runs in the directory
\* the build left and gives the primer it read there.
Launches ==
  { [reused |-> FALSE, input |-> "undefined"],
    [reused |-> TRUE, input |-> "primer"] }

\* Lines 47-56: run_id, mkdirSync, and the metadata object.
Init ==
  \E n \in 0..MaxStages, launch \in Launches :
    \E exts \in [1..n -> Extensions] :
      /\ stages = StageList(n, exts)
      /\ initialInput = launch.input
      /\ pc = "createLogger"
      /\ idx = 1
      /\ attempts = 0
      /\ currentInput = "undefined"
      /\ output = "undefined"
      /\ validatedOutput = "undefined"
      /\ issues = << >>
      /\ thrown = None
      /\ metadata =
           [run_id |-> "run-new", assignment_id |-> "a1", started_at |-> "t0",
            completed_at |-> None, stages_completed |-> << >>,
            status |-> "running", error |-> None]
      /\ runJson = IF launch.reused THEN Some(StaleMetadata) ELSE None
      /\ runLog = IF launch.reused THEN Some(<<StaleLine>>) ELSE None
      /\ files = [f \in AllFiles |-> IF launch.reused THEN Some(StaleContent) ELSE None]
      /\ calls = [k \in 1..n |-> 0]
      /\ args = [k \in 1..n |-> {}]
      /\ passedData = [k \in 1..n |-> None]
      /\ outcome = "none"
      /\ initialFiles = files
      /\ OutsideOff

\* writeRunMetadata(outputDir, metadata), lines 35-40
WriteRunMetadata(m) == runJson' = Some(m)

\* logger.log(message): appendFileSync(logPath, line)
LogAppend(message) ==
  runLog' = Some((IF IsSome(runLog) THEN Get(runLog) ELSE << >>) \o <<message>>)

\* createRunLogger(logPath): writeFileSync(logPath, "")
CreateLogger ==
  /\ pc = "createLogger"
  /\ runLog' = Some(<< >>)
  /\ pc' = "writeInitial"
  /\ UNCHANGED <<outside, config, idx, attempts, currentInput, output, validatedOutput,
                 issues, thrown, metadata, runJson, files, history>>

\* line 61
WriteInitialMetadata ==
  /\ pc = "writeInitial"
  /\ WriteRunMetadata(metadata)
  /\ pc' = "logStarted"
  /\ UNCHANGED <<outside, config, idx, attempts, currentInput, output, validatedOutput,
                 issues, thrown, metadata, runLog, files, history>>

\* lines 62-66
LogPipelineStarted ==
  /\ pc = "logStarted"
  /\ LogAppend(<<"Pipeline started for assignment '", metadata.assignment_id,
                 "' with ", NumText(NumStages), " stages">>)
  /\ currentInput' = initialInput
  /\ pc' = "forLoop"
  /\ UNCHANGED <<outside, config, idx, attempts, output, validatedOutput, issues,
                 thrown, metadata, runJson, files, history>>

\* lines 68-72: the loop takes the next stage
LogStageStarted ==
  /\ pc = "forLoop"
  /\ idx <= NumStages
  /\ LogAppend(<<"Stage '", Stage.name, "' started">>)
  /\ attempts' = 0
  /\ validatedOutput' = "undefined"
  /\ pc' = "attempt"
  /\ UNCHANGED <<outside, config, idx, currentInput, output, issues, thrown, metadata,
                 runJson, files, history>>

\* Faulty variant: the started entry is logged inside the retry loop.
InvokeStage_LogsStarted ==
  /\ pc = "attempt"
  /\ LogAppend(<<"Stage '", Stage.name, "' started">>)
  /\ attempts' = attempts + 1
  /\ output' = "undefined"
  /\ calls' = [calls EXCEPT ![idx] = @ + 1]
  /\ args' = [args EXCEPT ![idx] = @ \cup {currentInput}]
  /\ pc' = "awaiting"
  /\ UNCHANGED <<outside, config, idx, currentInput, validatedOutput, issues, thrown,
                 metadata, runJson, files, passedData, outcome, initialFiles>>

\* lines 74-79: attempts++, and stage.run(currentInput, ctx) is called
InvokeStage ==
  /\ pc = "attempt"
  /\ attempts' = attempts + 1
  /\ output' = "undefined"
  /\ calls' = [calls EXCEPT ![idx] = @ + 1]
  /\ args' = [args EXCEPT ![idx] = @ \cup {currentInput}]
  /\ pc' = "awaiting"
  /\ UNCHANGED <<outside, config, idx, currentInput, validatedOutput, issues, thrown,
                 metadata, disk, passedData, outcome, initialFiles>>

\* lines 80-83: the awaited promise rejects; the catch clause logs
StageRaises ==
  /\ pc = "awaiting"
  /\ \E e \in Throwables :
       /\ thrown' = Some(e)
       /\ LogAppend(<<"Stage '", Stage.name, "' threw error: ">> \o MessageOf(e))
  /\ pc' = "failRaised"
  /\ UNCHANGED <<outside, config, idx, attempts, currentInput, output, validatedOutput,
                 issues, metadata, runJson, files, history>>

\* Faulty variant: a raise is swallowed and the stage retried.
FailRaised_Retry ==
  /\ pc = "failRaised"
  /\ pc' = "attempt"
  /\ UNCHANGED <<outside, config, idx, attempts, currentInput, output, validatedOutput,
                 issues, thrown, metadata, disk, history>>

\* Faulty variant: a failure rolls stages_completed back.
FailRaised_Rollback ==
  /\ pc = "failRaised"
  /\ metadata' = [metadata EXCEPT !.status = "failed",
                                  !.error = Some(MessageOf(Get(thrown))),
                                  !.stages_completed = << >>]
  /\ WriteRunMetadata(metadata')
  /\ outcome' = "raised"
  /\ pc' = "returned"
  /\ UNCHANGED <<outside, config, idx, attempts, currentInput, output, validatedOutput,
                 issues, thrown, runLog, files, calls, args, passedData,
                 initialFiles>>

\* lines 84-87
FailRaised ==
  /\ pc = "failRaised"
  /\ metadata' = [metadata EXCEPT !.status = "failed",
                                  !.error = Some(MessageOf(Get(thrown)))]
  /\ WriteRunMetadata(metadata')
  /\ outcome' = "raised"
  /\ pc' = "returned"
  /\ UNCHANGED <<outside, config, idx, attempts, currentInput, output, validatedOutput,
                 issues, thrown, runLog, files, calls, args, passedData, initialFiles>>

\* Faulty variant: the candidate is persisted before it is validated.
StageReturns_WritesFirst ==
  /\ pc = "awaiting"
  /\ \E v \in Candidates :
       /\ output' = v
       /\ files' = [files EXCEPT ![Stage.outputFilename] =
                                   Some([fmt |-> "json", val |-> v])]
  /\ pc' = "validate"
  /\ UNCHANGED <<outside, config, idx, attempts, currentInput, validatedOutput, issues,
                 thrown, metadata, runJson, runLog, history>>

\* line 79: the awaited promise fulfils with a candidate
StageReturns ==
  /\ pc = "awaiting"
  /\ \E v \in Candidates : output' = v
  /\ pc' = "validate"
  /\ UNCHANGED <<outside, config, idx, attempts, currentInput, validatedOutput, issues,
                 thrown, metadata, disk, history>>

\* lines 90-95: the candidate passes the contract
ValidateSuccess ==
  /\ pc = "validate"
  /\ SafeParse(output).success
  /\ validatedOutput' = SafeParse(output).data
  /\ issues' = SafeParse(output).issues
  /\ passedData' = [passedData EXCEPT ![idx] = Some(SafeParse(output).data)]
  /\ pc' = "persist"
  /\ UNCHANGED <<outside, config, idx, attempts, currentInput, output, thrown,
                 metadata, disk, calls, args, outcome, initialFiles>>

\* lines 90-113: the candidate fails the contract and a retry remains
ValidateRetry ==
  /\ pc = "validate"
  /\ ~SafeParse(output).success
  /\ ~RetriesExhausted(attempts)
  /\ issues' = SafeParse(output).issues
  /\ LogAppend(<<"Stage '", Stage.name, "' output validation failed (attempt ",
                 NumText(attempts), "/", NumText(MAX_RETRIES + 1),
                 "), retrying...">>)
  /\ pc' = "attempt"
  /\ UNCHANGED <<outside, config, idx, attempts, currentInput, output, validatedOutput,
                 thrown, metadata, runJson, files, history>>

\* Faulty variant: the retry entry is logged before the bound is tested.
ValidateExhausted_LogsRetry ==
  /\ pc = "validate"
  /\ ~SafeParse(output).success
  /\ RetriesExhausted(attempts)
  /\ issues' = SafeParse(output).issues
  /\ runLog' = Some(Get(runLog) \o
       << <<"Stage '", Stage.name, "' output validation failed (attempt ",
            NumText(attempts), "/", NumText(MAX_RETRIES + 1), "), retrying...">>,
          <<"Stage '", Stage.name, "' output validation failed after ",
            NumText(attempts), " attempts">> >>)
  /\ pc' = "failExhausted"
  /\ UNCHANGED <<outside, config, idx, attempts, currentInput, output, validatedOutput,
                 thrown, metadata, runJson, files, history>>

\* lines 90-103: the candidate fails the contract and no retry remains
ValidateExhausted ==
  /\ pc = "validate"
  /\ ~SafeParse(output).success
  /\ RetriesExhausted(attempts)
  /\ issues' = SafeParse(output).issues
  /\ LogAppend(<<"Stage '", Stage.name, "' output validation failed after ",
                 NumText(attempts), " attempts">>)
  /\ pc' = "failExhausted"
  /\ UNCHANGED <<outside, config, idx, attempts, currentInput, output, validatedOutput,
                 thrown, metadata, runJson, files, history>>

\* Faulty variant: the failure is recorded without its message.
FailExhausted_NoError ==
  /\ pc = "failExhausted"
  /\ metadata' = [metadata EXCEPT !.status = "failed"]
  /\ WriteRunMetadata(metadata')
  /\ outcome' = "exhausted"
  /\ pc' = "returned"
  /\ UNCHANGED <<outside, config, idx, attempts, currentInput, output, validatedOutput,
                 issues, thrown, runLog, files, calls, args, passedData, initialFiles>>

\* lines 104-107
FailExhausted ==
  /\ pc = "failExhausted"
  /\ metadata' = [metadata EXCEPT !.status = "failed",
                                  !.error = Some(IssueSummary(issues))]
  /\ WriteRunMetadata(metadata')
  /\ outcome' = "exhausted"
  /\ pc' = "returned"
  /\ UNCHANGED <<outside, config, idx, attempts, currentInput, output, validatedOutput,
                 issues, thrown, runLog, files, calls, args, passedData, initialFiles>>

ShapeMessage(stage, v) ==
  <<"Stage '", stage.name, "' output must be a string for non-JSON filename '",
    stage.outputFilename.base, stage.outputFilename.ext, "', got ", TypeOf(v)>>

\* lines 117-123: a text artifact whose validated value is not a string
ShapeMismatch ==
  /\ pc = "persist"
  /\ ~EndsWithJson(Stage.outputFilename)
  /\ TypeOf(validatedOutput) # "string"
  /\ LogAppend(ShapeMessage(Stage, validatedOutput))
  /\ pc' = "failShape"
  /\ UNCHANGED <<outside, config, idx, attempts, currentInput, output, validatedOutput,
                 issues, thrown, metadata, runJson, files, history>>

\* Faulty variant: a failure cleans the output directory.
FailShape_Cleanup ==
  /\ pc = "failShape"
  /\ metadata' = [metadata EXCEPT !.status = "failed",
                                  !.error = Some(ShapeMessage(Stage, validatedOutput))]
  /\ WriteRunMetadata(metadata')
  /\ files' = [f \in AllFiles |-> None]
  /\ outcome' = "shape"
  /\ pc' = "returned"
  /\ UNCHANGED <<outside, config, idx, attempts, currentInput, output, validatedOutput,
                 issues, thrown, runLog, calls, args, passedData, initialFiles>>

\* lines 124-127
FailShape ==
  /\ pc = "failShape"
  /\ metadata' = [metadata EXCEPT !.status = "failed",
                                  !.error = Some(ShapeMessage(Stage, validatedOutput))]
  /\ WriteRunMetadata(metadata')
  /\ outcome' = "shape"
  /\ pc' = "returned"
  /\ UNCHANGED <<outside, config, idx, attempts, currentInput, output, validatedOutput,
                 issues, thrown, runLog, files, calls, args, passedData, initialFiles>>

\* lines 117-130: the content of the artifact
OutputContent(stage, v) ==
  IF EndsWithJson(stage.outputFilename) THEN JsonStringify(v) ELSE Literal(v)

\* lines 117-134: the artifact is written
WriteArtifact ==
  /\ pc = "persist"
  /\ EndsWithJson(Stage.outputFilename) \/ TypeOf(validatedOutput) = "string"
  /\ files' = [files EXCEPT ![Stage.outputFilename] =
                              Some(OutputContent(Stage, validatedOutput))]
  /\ pc' = "logCompleted"
  /\ UNCHANGED <<outside, config, idx, attempts, currentInput, output, validatedOutput,
                 issues, thrown, metadata, runJson, runLog, history>>

\* lines 135-137
LogStageCompleted ==
  /\ pc = "logCompleted"
  /\ LogAppend(<<"Stage '", Stage.name, "' completed, output written to ",
                 Stage.outputFilename.base, Stage.outputFilename.ext>>)
  /\ pc' = "record"
  /\ UNCHANGED <<outside, config, idx, attempts, currentInput, output, validatedOutput,
                 issues, thrown, metadata, runJson, files, history>>

\* Faulty variant: the raw candidate is handed on.
NextInput_Raw(candidate, validated) == candidate

\* line 140: what the next stage will be given
NextInput(candidate, validated) == validated

\* lines 138-141: the stage is recorded and the loop moves on
RecordStage ==
  /\ pc = "record"
  /\ metadata' = [metadata EXCEPT
                    !.stages_completed = Append(@, Stage.name)]
  /\ WriteRunMetadata(metadata')
  /\ currentInput' = NextInput(output, validatedOutput)
  /\ idx' = idx + 1
  /\ pc' = "forLoop"
  /\ UNCHANGED <<outside, config, attempts, output, validatedOutput, issues, thrown,
                 runLog, files, history>>

\* Faulty variant: a run without stages is reported as failed.
Complete_EmptyFails ==
  /\ pc = "forLoop"
  /\ idx > NumStages
  /\ metadata' = IF NumStages = 0
                   THEN [metadata EXCEPT !.status = "failed",
                                         !.error = Some(<<"No stages">>)]
                   ELSE [metadata EXCEPT !.status = "completed",
                                         !.completed_at = Some("t1")]
  /\ WriteRunMetadata(metadata')
  /\ pc' = "logCompletion"
  /\ UNCHANGED <<outside, config, idx, attempts, currentInput, output, validatedOutput,
                 issues, thrown, runLog, files, history>>

\* Faulty variant: the final metadata is not written.
Complete_NoWrite ==
  /\ pc = "forLoop"
  /\ idx > NumStages
  /\ metadata' = [metadata EXCEPT !.status = "completed",
                                  !.completed_at = Some("t1")]
  /\ pc' = "logCompletion"
  /\ UNCHANGED <<outside, config, idx, attempts, currentInput, output, validatedOutput,
                 issues, thrown, disk, history>>

\* lines 143-145: the loop is over
Complete ==
  /\ pc = "forLoop"
  /\ idx > NumStages
  /\ metadata' = [metadata EXCEPT !.status = "completed",
                                  !.completed_at = Some("t1")]
  /\ WriteRunMetadata(metadata')
  /\ pc' = "logCompletion"
  /\ UNCHANGED <<outside, config, idx, attempts, currentInput, output, validatedOutput,
                 issues, thrown, runLog, files, history>>

\* Faulty variant: completed_at is stamped again after the status is final.
LogPipelineCompleted_Stamps ==
  /\ pc = "logCompletion"
  /\ LogAppend(<<"Pipeline completed successfully">>)
  /\ metadata' = [metadata EXCEPT !.completed_at = Some("t2")]
  /\ WriteRunMetadata(metadata')
  /\ outcome' = "completed"
  /\ pc' = "returned"
  /\ UNCHANGED <<outside, config, idx, attempts, currentInput, output, validatedOutput,
                 issues, thrown, files, calls, args, passedData, initialFiles>>

\* lines 146-148
LogPipelineCompleted ==
  /\ pc = "logCompletion"
  /\ LogAppend(<<"Pipeline completed successfully">>)
  /\ outcome' = "completed"
  /\ pc' = "returned"
  /\ UNCHANGED <<outside, config, idx, attempts, currentInput, output, validatedOutput,
                 issues, thrown, metadata, runJson, files, calls, args,
                 passedData, initialFiles>>

Next ==
  \/ CreateLogger
  \/ WriteInitialMetadata
  \/ LogPipelineStarted
  \/ LogStageStarted
  \/ InvokeStage
  \/ StageRaises
  \/ FailRaised
  \/ StageReturns
  \/ ValidateSuccess
  \/ ValidateRetry
  \/ ValidateExhausted
  \/ FailExhausted
  \/ ShapeMismatch
  \/ FailShape
  \/ WriteArtifact
  \/ LogStageCompleted
  \/ RecordStage
  \/ Complete
  \/ LogPipelineCompleted

Spec == Init /\ [][Next]_vars

\* The run is one sequential thread of control: a step that can be taken is
\* taken, and an invoked stage operation settles.
FairSpec == Spec /\ WF_vars(Next)

(***************************************************************************)
(* Vocabulary of the properties.                                           *)
(***************************************************************************)
Status == metadata.status
Completed == metadata.stages_completed
ConfiguredNames == [i \in 1..NumStages |-> stages[i].name]
FileOf(k) == stages[k].outputFilename
Failing == idx \in 1..NumStages
Returned == pc = "returned"

\* The file was written by this run (it holds neither nothing nor what an
\* earlier run left).
Written(f) == IsSome(files[f]) /\ Get(files[f]).fmt # "stale"

\* What stage k's artifact holds when it was written from value v.
ArtifactOf(k, v) ==
  IF FileOf(k).ext = ".json" THEN [fmt |-> "json", val |-> v]
                             ELSE [fmt |-> "text", val |-> v]

IsPrefix(a, b) == Len(a) <= Len(b) /\ \A i \in 1..Len(a) : a[i] = b[i]

RECURSIVE CallsUpTo(_)
CallsUpTo(k) == IF k = 0 THEN 0 ELSE calls[k] + CallsUpTo(k - 1)
TotalCalls == CallsUpTo(NumStages)

\* The message of what was raised: an Error's message, else the value as text.
RaisedMessage(e) == IF e.isError THEN e.message ELSE e.text

(***************************************************************************)
(* C1: when a stage's operation raises, on its first attempt or on a       *)
(* retry, the run halts at once: only the failure is logged and recorded;  *)
(* the run ends failed with error equal to the raised message; the stage   *)
(* is not invoked again, no later stage is invoked, and the stage is not   *)
(* in stages_completed.                                                    *)
(***************************************************************************)
C1_AfterRaise ==
  IsSome(thrown) =>
    /\ pc \in {"failRaised", "returned"}
    /\ \A i \in 1..Len(Completed) : Completed[i] # Stage.name
    /\ \A k \in (idx + 1)..NumStages : calls[k] = 0
    /\ Returned =>
         /\ Status = "failed"
         /\ metadata.error = Some(RaisedMessage(Get(thrown)))

C1_RaiseHalts ==
  /\ []C1_AfterRaise
  /\ [][IsSome(thrown) => calls' = calls /\ Completed' = Completed]_vars

\* A later stage exists, earlier attempts failed validation, the retry raised.
C1_Witness ==
  /\ Returned /\ IsSome(thrown) /\ Failing
  /\ calls[idx] >= 2 /\ idx < NumStages

(***************************************************************************)
(* C2: every stage's operation is invoked at most 3 times, and an          *)
(* invocation after the first happens only when the preceding attempt of   *)
(* the same stage returned a value that failed validation.                 *)
(***************************************************************************)
C2_AtMostThree == \A k \in 1..NumStages : calls[k] <= 3

C2_RetryOnlyAfterInvalid ==
  calls' # calls =>
    \E k \in 1..NumStages :
      /\ calls' = [calls EXCEPT ![k] = @ + 1]
      /\ calls[k] >= 1 =>
           /\ k = idx
           /\ output \in InvalidCandidates
           /\ ~IsSome(thrown)

C2_BoundedRetry == []C2_AtMostThree /\ [][C2_RetryOnlyAfterInvalid]_vars

C2_Witness == \E k \in 1..NumStages : calls[k] = 3 /\ k < idx

(***************************************************************************)
(* C3: when a stage's candidates fail validation on all 3 attempts, the    *)
(* run ends failed, error is the summary of the issues of the last         *)
(* attempt, the stage is not in stages_completed, no artifact was written  *)
(* for it and no later stage was invoked.                                  *)
(***************************************************************************)
AllThreeInvalid ==
  /\ Failing
  /\ calls[idx] = 3
  /\ ~IsSome(thrown)
  /\ ~IsSome(passedData[idx])

\* The summary the issues of each rejected candidate must give.
ExpectedSummary(v) ==
  CASE v = "bad_a" -> <<"required_field", ": ", "Required">>
    [] v = "bad_b" -> <<"items", ".", "0", ": ", "Expected string, received number",
                        "; ", ": ", "Unrecognized key(s) in object">>

C3_ExhaustedFails ==
  (Returned /\ AllThreeInvalid) =>
    /\ Status = "failed"
    /\ output \in InvalidCandidates
    /\ metadata.error = Some(ExpectedSummary(output))
    /\ \A i \in 1..Len(Completed) : Completed[i] # Stage.name
    /\ files[FileOf(idx)] = initialFiles[FileOf(idx)]
    /\ \A k \in (idx + 1)..NumStages : calls[k] = 0

\* The last attempt's issues differ from the first attempt's.
C3_Witness ==
  /\ Returned /\ AllThreeInvalid
  /\ output = "bad_b" /\ idx >= 2 /\ idx < NumStages

(***************************************************************************)
(* C4: a stage's artifact is written only after one of its candidates      *)
(* passed validation, and holds that candidate's parsed value; its name is *)
(* in stages_completed only after the artifact was written; run.json       *)
(* holding that name is written before the next stage is first invoked.    *)
(***************************************************************************)
C4_ValidateThenPersist ==
  \A k \in 1..NumStages :
    /\ Written(FileOf(k)) =>
         /\ IsSome(passedData[k])
         /\ files[FileOf(k)] = Some(ArtifactOf(k, Get(passedData[k])))
    /\ k <= Len(Completed) => Written(FileOf(k))
    /\ (k < NumStages /\ calls[k + 1] > 0) =>
         /\ IsSome(runJson)
         /\ Get(runJson).run_id = metadata.run_id
         /\ Len(Get(runJson).stages_completed) >= k
         /\ Get(runJson).stages_completed[k] = stages[k].name

\* The second stage is being invoked after the first was retried.
C4_Witness ==
  /\ NumStages >= 2 /\ pc = "awaiting" /\ idx = 2
  /\ calls[1] >= 2 /\ Written(FileOf(1))

(***************************************************************************)
(* C5: every invocation of the first stage gets the initial input; every   *)
(* invocation of stage k+1 gets the parsed output of stage k, never a raw  *)
(* or rejected candidate; a retry gets the input of the first attempt.     *)
(***************************************************************************)
C5_InputChaining ==
  \A k \in 1..NumStages :
    /\ args[k] \cap Candidates = {}
    /\ k = 1 => args[k] \subseteq {initialInput}
    /\ k > 1 => /\ args[k] # {} => IsSome(passedData[k - 1])
                /\ \A a \in args[k] : a = Get(passedData[k - 1])

\* The second stage was retried.
C5_Witness ==
  /\ NumStages >= 2 /\ calls[2] >= 2 /\ args[2] = {"o_norm"}

(***************************************************************************)
(* C6: stages_completed is always a prefix of the configured stage names;  *)
(* it changes only by one name being appended, also when the run fails.    *)
(***************************************************************************)
C6_AppendOnly ==
  /\ [](IsPrefix(Completed, ConfiguredNames))
  /\ [][\/ Completed' = Completed
        \/ \E n \in {stages[i].name : i \in 1..NumStages} :
             Completed' = Append(Completed, n)]_vars

C6_Witness == Returned /\ Status = "failed" /\ Len(Completed) = 2

(***************************************************************************)
(* C7: status starts as running and changes at most once, to completed or  *)
(* to failed; after that no stage is invoked, no artifact is written and   *)
(* the metadata does not change.                                           *)
(***************************************************************************)
C7_TerminalStatus ==
  /\ Status = "running"
  /\ [][Status' # Status =>
          Status = "running" /\ Status' \in {"completed", "failed"}]_vars
  /\ [][Status # "running" =>
          calls' = calls /\ files' = files /\ metadata' = metadata]_vars

C7_Witness == Returned /\ Status = "completed" /\ NumStages >= 2

(***************************************************************************)
(* C8: while a stage's operation is being invoked, and when runPipeline    *)
(* has returned, run.json holds the in-memory metadata.                    *)
(***************************************************************************)
C8_MetadataPersisted ==
  pc \in {"awaiting", "returned"} => runJson = Some(metadata)

C8_Witness ==
  /\ Returned /\ Status = "failed" /\ Len(Completed) >= 1
  /\ runJson = Some(metadata)

(***************************************************************************)
(* C9: when stage k fails (it raised, its retries are exhausted, or its    *)
(* text artifact is not a string), the artifacts of stages 1..k-1 are on   *)
(* disk as written, stages_completed in memory and in run.json is the      *)
(* names of stages 1..k-1, and no artifact was written for stage k: its    *)
(* file is as it was when the run started.                                 *)
(***************************************************************************)
EarlierProgressKept ==
  /\ \A j \in 1..(idx - 1) :
       /\ IsSome(passedData[j])
       /\ files[FileOf(j)] = Some(ArtifactOf(j, Get(passedData[j])))
  /\ Completed = SubSeq(ConfiguredNames, 1, idx - 1)
  /\ IsSome(runJson)
  /\ Get(runJson).stages_completed = SubSeq(ConfiguredNames, 1, idx - 1)

C9_PartialProgress ==
  (Returned /\ Status = "failed") =>
    /\ Failing
    /\ EarlierProgressKept
    /\ files[FileOf(idx)] = initialFiles[FileOf(idx)]

\* C9 as first stated: no artifact exists for the failed stage.
C9_NoArtifactExists ==
  (Returned /\ Status = "failed") =>
    /\ Failing
    /\ EarlierProgressKept
    /\ files[FileOf(idx)] = None

\* The second stage failed in a directory an earlier run had used.
C9_Witness ==
  /\ Returned /\ Status = "failed" /\ idx = 2 /\ outcome = "shape"
  /\ IsSome(initialFiles[FileOf(2)])

(***************************************************************************)
(* C10: every run ends: it reaches status completed or failed and returns  *)
(* (every invoked stage operation settles); the stage operations are       *)
(* invoked at most 3 times the number of stages in total.                  *)
(***************************************************************************)
C10_Terminates ==
  /\ <>(Returned /\ Status \in {"completed", "failed"})
  /\ [](TotalCalls <= 3 * NumStages)

\* Every stage used all of its attempts.
C10_Witness == Returned /\ NumStages >= 2 /\ TotalCalls = 3 * NumStages

(***************************************************************************)
(* The audit log read as events.                                           *)
(***************************************************************************)
LogLines == IF IsSome(runLog) THEN Get(runLog) ELSE << >>

\* The event a log line reports, recognised by the words of the line.
KindOf(line) ==
  CASE line[1] = "Pipeline started for assignment '" -> "pipeline_started"
    [] line[1] = "Pipeline completed successfully" -> "pipeline_completed"
    [] line[1] = "Stage '" /\ line[3] = "' started" -> "started"
    [] line[1] = "Stage '" /\ line[3] = "' threw error: " -> "fatal"
    [] line[1] = "Stage '" /\ line[3] = "' output validation failed (attempt " -> "retry"
    [] line[1] = "Stage '" /\ line[3] = "' output validation failed after " -> "exhausted"
    [] line[1] = "Stage '" /\ line[3] = "' completed, output written to " -> "completed"
    [] line[1] = "Stage '"
         /\ line[3] = "' output must be a string for non-JSON filename '" -> "shape"
    [] OTHER -> "unknown"

EventOf(line) ==
  [kind |-> KindOf(line),
   stage |-> IF line[1] = "Stage '" THEN line[2] ELSE "-"]

LogEvents == [i \in 1..Len(LogLines) |-> EventOf(LogLines[i])]

Ev(kind, stage) == [kind |-> kind, stage |-> stage]

RetryEntries(k) ==
  Cardinality({i \in 1..Len(LogLines) :
                 LogEvents[i] = Ev("retry", stages[k].name)})

Reinvocations(k) == IF calls[k] = 0 THEN 0 ELSE calls[k] - 1

(***************************************************************************)
(* C11: when the run has returned, the log holds as many retry entries for *)
(* a stage as the stage was re-invoked: two for a stage invalid twice and  *)
(* then valid, none for a stage that raised at once, two for a stage       *)
(* invalid three times.                                                    *)
(***************************************************************************)
C11_RetryEntries ==
  Returned => \A k \in 1..NumStages : RetryEntries(k) = Reinvocations(k)

\* Invalid on attempts 1 and 2, valid on attempt 3, and the run completed.
C11_Witness ==
  /\ Returned /\ Status = "completed" /\ NumStages = 1
  /\ calls[1] = 3 /\ RetryEntries(1) = 2

(***************************************************************************)
(* C12: a run with an empty stage list invokes no stage and writes no      *)
(* artifact; it ends completed with empty stages_completed, and run.json   *)
(* holds that metadata.                                                    *)
(***************************************************************************)
C12_EmptyRun ==
  NumStages = 0 =>
    /\ pc \in {"createLogger", "writeInitial", "logStarted", "forLoop",
               "logCompletion", "returned"}
    /\ TotalCalls = 0
    /\ files = initialFiles
    /\ Completed = << >>
    /\ \A i \in 1..Len(LogEvents) : pc # "createLogger" => LogEvents[i].stage = "-"
    /\ Returned =>
         /\ Status = "completed"
         /\ metadata.error = None
         /\ runJson = Some(metadata)

C12_Witness == NumStages = 0 /\ Returned /\ IsSome(runJson)

(***************************************************************************)
(* C13: a stage with a plain-text artifact whose validated value is not a  *)
(* string fails the run: the error names the stage, no artifact is         *)
(* written, the stage is not in stages_completed and no later stage runs.  *)
(* A completed stage's artifact holds the serialised validated value when  *)
(* it is structured, and the validated string itself when it is text.      *)
(***************************************************************************)
TextShapeViolated ==
  /\ Failing
  /\ IsSome(passedData[idx])
  /\ FileOf(idx).ext # ".json"
  /\ TypeOf(Get(passedData[idx])) # "string"

C13_TextArtifactPolicy ==
  /\ (Returned /\ TextShapeViolated) =>
       /\ Status = "failed"
       /\ IsSome(metadata.error)
       /\ \E i \in 1..Len(Get(metadata.error)) :
            Get(metadata.error)[i] = Stage.name
       /\ files[FileOf(idx)] = initialFiles[FileOf(idx)]
       /\ \A i \in 1..Len(Completed) : Completed[i] # Stage.name
       /\ \A k \in (idx + 1)..NumStages : calls[k] = 0
  /\ \A k \in 1..Len(Completed) :
       /\ IsSome(passedData[k])
       /\ FileOf(k).ext = ".json" =>
            files[FileOf(k)] = Some([fmt |-> "json", val |-> Get(passedData[k])])
       /\ FileOf(k).ext # ".json" =>
            /\ TypeOf(Get(passedData[k])) = "string"
            /\ files[FileOf(k)] = Some([fmt |-> "text", val |-> Get(passedData[k])])

\* A structured stage completed, then a text stage produced an object.
C13_Witness ==
  /\ Returned /\ TextShapeViolated /\ idx = 2 /\ idx < NumStages
  /\ FileOf(1).ext = ".json"

(***************************************************************************)
(* C14: the log holds one entry per event, in the order of the events: a   *)
(* started entry for a stage before its first invocation, a completed      *)
(* entry exactly for the stages in stages_completed, one retry entry per   *)
(* retried attempt, a fatal entry exactly when a stage raised, a           *)
(* completion entry exactly when the run ended completed; an entry once    *)
(* written stays as it is.                                                 *)
(***************************************************************************)
RECURSIVE Repeat(_, _)
Repeat(x, n) == IF n <= 0 THEN << >> ELSE <<x>> \o Repeat(x, n - 1)

RECURSIVE CompletedStagesEvents(_)
CompletedStagesEvents(k) ==
  IF k = 0 THEN << >>
  ELSE CompletedStagesEvents(k - 1)
         \o <<Ev("started", stages[k].name)>>
         \o Repeat(Ev("retry", stages[k].name), Reinvocations(k))
         \o <<Ev("completed", stages[k].name)>>

FailedStageEvents ==
  <<Ev("started", Stage.name)>>
    \o Repeat(Ev("retry", Stage.name), Reinvocations(idx))
    \o << Ev(IF IsSome(thrown) THEN "fatal"
             ELSE IF IsSome(passedData[idx]) THEN "shape" ELSE "exhausted",
             Stage.name) >>

ExpectedEvents ==
  <<Ev("pipeline_started", "-")>>
    \o CompletedStagesEvents(Len(Completed))
    \o (IF Status = "completed" THEN <<Ev("pipeline_completed", "-")>>
        ELSE FailedStageEvents)

C14_LogWhenReturned ==
  /\ Returned => LogEvents = ExpectedEvents
  /\ \A k \in 1..NumStages :
       calls[k] > 0 =>
         \E i \in 1..Len(LogEvents) : LogEvents[i] = Ev("started", stages[k].name)

C14_AuditLog ==
  /\ []C14_LogWhenReturned
  /\ [][pc # "createLogger" => IsPrefix(LogLines, LogLines')]_vars

\* A run with a retried stage, a completed stage and a raise.
C14_Witness ==
  /\ Returned /\ IsSome(thrown) /\ idx = 2
  /\ calls[1] = 2 /\ calls[2] = 3

(***************************************************************************)
(* Part 2: the chunking of one file by the ingest stage                    *)
(* [chunkFile, chunkMarkdown, chunkPlainText].                             *)
(*                                                                         *)
(* A line is a sequence of characters.  The content of a file is the       *)
(* sequence of lines that content.split("\n") yields, so every content has *)
(* at least one line and no line holds a newline.                          *)
(***************************************************************************)
MaxLines == 5

\* The characters String.prototype.trim and \s treat as white space.
Whitespace == {" ", "\t"}

\* Faulty variant: only the empty line is blank.
IsBlank_EmptyOnly(line) == Len(line) = 0

\* line.trim() === ""
IsBlank(line) == \A j \in 1..Len(line) : line[j] \in Whitespace

\* The backtick character, as a token.
Backtick == "backtick"

\* The fence test: the line starts with three backticks or three tildes.
IsFence(line) ==
  /\ Len(line) >= 3
  /\ \E c \in {Backtick, "~"} : \A j \in 1..3 : line[j] = c

\* The heading test: one to six # characters, then white space.
IsHeading(line) ==
  \E n \in 1..6 :
    /\ Len(line) > n
    /\ \A j \in 1..n : line[j] = "#"
    /\ line[n + 1] \in Whitespace

\* The digest of a text, cut to its first n hexadecimal digits.  Modelled
\* as one-to-one: digests of different texts differ.
Sha256Hex(text, n) == [sha256 |-> text, digits |-> n]

\* Faulty variant: the index is left out of the digest.
makeChunkId_NoIndex(fileId, index) == <<"chunk-", Sha256Hex(fileId \o <<":">>, 12)>>

makeChunkId(fileId, index) ==
  <<"chunk-", Sha256Hex(fileId \o <<":", NumText(index)>>, 12)>>

RECURSIVE FirstNonBlank(_, _)
\* while (start < lines.length && lines[start].trim() === "") start++
FirstNonBlank(lines, start) ==
  IF start < Len(lines) /\ IsBlank(lines[start + 1])
  THEN FirstNonBlank(lines, start + 1) ELSE start

RECURSIVE LastNonBlank(_, _, _)
\* while (end > start && lines[end].trim() === "") end--
LastNonBlank(lines, start, end) ==
  IF end > start /\ IsBlank(lines[end + 1])
  THEN LastNonBlank(lines, start, end - 1) ELSE end

\* Faulty variant: the lines are trimmed but the offsets are not reported.
trimBlankLines_NoOffsets(lines) ==
  LET start == FirstNonBlank(lines, 0) IN
  IF start = Len(lines) THEN None
  ELSE LET end == LastNonBlank(lines, start, Len(lines) - 1) IN
       Some([startOffset |-> 0, endOffset |-> 0,
             trimmedLines |-> SubSeq(lines, start + 1, end + 1)])

\* Indices are 0-based as in the source; SubSeq is 1-based and inclusive.
trimBlankLines(lines) ==
  LET start == FirstNonBlank(lines, 0) IN
  IF start = Len(lines) THEN None
  ELSE LET end == LastNonBlank(lines, start, Len(lines) - 1) IN
       Some([startOffset |-> start,
             endOffset |-> Len(lines) - 1 - end,
             trimmedLines |-> SubSeq(lines, start + 1, end + 1)])

\* A Chunk record.
Chunk(fileId, index, textLines, lineStart, lineEnd) ==
  [ chunk_id |-> makeChunkId(fileId, index),
    file_id |-> fileId,
    text |-> Join(textLines, <<"\n">>),
    source_ref |-> [file_id |-> fileId,
                    line_start |-> lineStart, line_end |-> lineEnd] ]

\* The locals of chunkMarkdown before its loop.
MdStart ==
  [ chunks |-> << >>, currentLines |-> << >>, currentStart |-> 0,
    chunkIndex |-> 0, inFencedBlock |-> FALSE ]

\* Faulty variant: a block of blank lines uses up an index.
MdFlushChunk_CountsBlank(st, fileId) ==
  LET trimmed == trimBlankLines(st.currentLines) IN
  IF ~IsSome(trimmed) THEN [st EXCEPT !.chunkIndex = @ + 1]
  ELSE
    LET t == Get(trimmed)
        lineStart1 == st.currentStart + t.startOffset + 1
        lineEnd1 == st.currentStart + Len(st.currentLines) - 1 - t.endOffset + 1
    IN [st EXCEPT
          !.chunks = Append(@, Chunk(fileId, st.chunkIndex, t.trimmedLines,
                                     lineStart1, lineEnd1)),
          !.chunkIndex = @ + 1]

\* flushChunk of chunkMarkdown.
MdFlushChunk(st, fileId) ==
  LET trimmed == trimBlankLines(st.currentLines) IN
  IF ~IsSome(trimmed) THEN st
  ELSE
    LET t == Get(trimmed)
        lineStart1 == st.currentStart + t.startOffset + 1
        lineEnd1 == st.currentStart + Len(st.currentLines) - 1 - t.endOffset + 1
    IN [st EXCEPT
          !.chunks = Append(@, Chunk(fileId, st.chunkIndex, t.trimmedLines,
                                     lineStart1, lineEnd1)),
          !.chunkIndex = @ + 1]

\* Faulty variant: the fence state is not consulted.
MdLine_NoFence(st, i, line, fileId) ==
  IF IsHeading(line) /\ Len(st.currentLines) > 0
  THEN [MdFlushChunk(st, fileId) EXCEPT !.currentLines = <<line>>,
                                        !.currentStart = i]
  ELSE [st EXCEPT !.currentLines = Append(@, line)]

\* The body of the loop of chunkMarkdown for line i (0-based).
MdLine(st, i, line, fileId) ==
  LET fenced == IF IsFence(line) THEN ~st.inFencedBlock ELSE st.inFencedBlock
      s1 == [st EXCEPT !.inFencedBlock = fenced]
  IN IF ~fenced /\ IsHeading(line) /\ Len(st.currentLines) > 0
     THEN [MdFlushChunk(s1, fileId) EXCEPT !.currentLines = <<line>>,
                                           !.currentStart = i]
     ELSE [s1 EXCEPT !.currentLines = Append(@, line)]

RECURSIVE MdLoop(_, _, _, _)
MdLoop(st, lines, i, fileId) ==
  IF i < Len(lines)
  THEN MdLoop(MdLine(st, i, lines[i + 1], fileId), lines, i + 1, fileId)
  ELSE st

\* Faulty variant: the block open at the end of the file is not flushed.
chunkMarkdown_NoFinalFlush(lines, fileId) ==
  MdLoop(MdStart, lines, 0, fileId).chunks

chunkMarkdown(lines, fileId) ==
  LET st == MdLoop(MdStart, lines, 0, fileId)
  IN (IF Len(st.currentLines) > 0 THEN MdFlushChunk(st, fileId) ELSE st).chunks

\* The locals of chunkPlainText before its loop.
TxtStart ==
  [ chunks |-> << >>, currentLines |-> << >>, currentStart |-> -1,
    chunkIndex |-> 0 ]

\* flushChunk of chunkPlainText.
TxtFlushChunk(st, fileId) ==
  IF Len(st.currentLines) = 0 THEN st
  ELSE [st EXCEPT
          !.chunks = Append(@, Chunk(fileId, st.chunkIndex, st.currentLines,
                                     st.currentStart + 1,
                                     st.currentStart + Len(st.currentLines))),
          !.chunkIndex = @ + 1,
          !.currentLines = << >>,
          !.currentStart = -1]

\* The body of the loop of chunkPlainText for line i (0-based).
TxtLine(st, i, line, fileId) ==
  IF st.currentStart = -1
  THEN IF ~IsBlank(line)
       THEN [st EXCEPT !.currentStart = i, !.currentLines = Append(@, line)]
       ELSE st
  ELSE IF IsBlank(line)
       THEN TxtFlushChunk(st, fileId)
       ELSE [st EXCEPT !.currentLines = Append(@, line)]

RECURSIVE TxtLoop(_, _, _, _)
TxtLoop(st, lines, i, fileId) ==
  IF i < Len(lines)
  THEN TxtLoop(TxtLine(st, i, lines[i + 1], fileId), lines, i + 1, fileId)
  ELSE st

chunkPlainText(lines, fileId) ==
  TxtFlushChunk(TxtLoop(TxtStart, lines, 0, fileId), fileId).chunks

\* content.trim().length === 0: every character is white space or newline.
IsWhitespaceOnly(lines) == \A i \in 1..Len(lines) : IsBlank(lines[i])

\* ext is extname(filePath).toLowerCase().
chunkFile(lines, ext, fileId) ==
  IF IsWhitespaceOnly(lines) THEN << >>
  ELSE IF ext = ".md" THEN chunkMarkdown(lines, fileId)
  ELSE chunkPlainText(lines, fileId)

\* The pipeline variables while no pipeline run is studied.
RunOff ==
  /\ stages = << >>
  /\ initialInput = "undefined"
  /\ pc = "off"
  /\ idx = 1
  /\ attempts = 0
  /\ currentInput = "undefined"
  /\ output = "undefined"
  /\ validatedOutput = "undefined"
  /\ issues = << >>
  /\ thrown = None
  /\ metadata = Off
  /\ runJson = None
  /\ runLog = None
  /\ files = [f \in AllFiles |-> None]
  /\ calls = << >>
  /\ args = << >>
  /\ passedData = << >>
  /\ outcome = "none"
  /\ initialFiles = files

\* The lines a file is made of: empty, white space only, plain text, a
\* heading, a # that is no heading, a backtick fence and a tilde fence.
LineAlphabet ==
  { << >>, <<" ">>, <<"t">>, <<"#", " ", "h">>, <<"#", "h">>,
    <<Backtick, Backtick, Backtick>>, <<"~", "~", "~">> }

Contents == UNION { [1..k -> LineAlphabet] : k \in 1..MaxLines }

SUPPORTED_EXTENSIONS == {".md", ".txt"}

InitChunk ==
  /\ RunOff
  /\ ingest = Off
  /\ multi = Off
  /\ query = Off
  /\ store = Off
  /\ generation = Off
  /\ \E ext \in SUPPORTED_EXTENSIONS, lines \in Contents :
       chunker = [phase |-> "read", ext |-> ext, fileId |-> <<"notes", ext>>,
                  lines |-> lines, chunks |-> << >>]

\* chunkFile applied to the file that was read.
ChunkFile ==
  /\ chunker.phase = "read"
  /\ chunker' = [chunker EXCEPT
                   !.phase = "done",
                   !.chunks = chunkFile(chunker.lines, chunker.ext, chunker.fileId)]
  /\ UNCHANGED <<run, ingest, multi, query, store, generation>>

NextChunk == ChunkFile

SpecChunk == InitChunk /\ [][NextChunk]_vars

(***************************************************************************)
(* Claims about chunking.                                                  *)
(***************************************************************************)
Chunked(ext) == chunker.phase = "done" /\ chunker.ext = ext
LineStart(c) == c.source_ref.line_start
LineEnd(c) == c.source_ref.line_end
SourceSlice(lines, c) == Join(SubSeq(lines, LineStart(c), LineEnd(c)), <<"\n">>)

\* C16: for every chunk of every file, in both formats, the source lines
\* line_start..line_end (1-based, inclusive) joined with newline are the
\* chunk's text exactly, and 1 <= line_start <= line_end <= number of lines.
C16_TextLocator ==
  chunker.phase = "done" =>
    \A k \in 1..Len(chunker.chunks) :
      LET c == chunker.chunks[k] IN
        /\ 1 <= LineStart(c)
        /\ LineStart(c) <= LineEnd(c)
        /\ LineEnd(c) <= Len(chunker.lines)
        /\ c.text = SourceSlice(chunker.lines, c)

\* A markdown file with a leading blank line, a fenced block and a trailing
\* blank line, whose chunk starts at line 2.
C16_Witness ==
  /\ Chunked(".md")
  /\ Len(chunker.lines) >= 3
  /\ IsBlank(chunker.lines[1])
  /\ IsBlank(chunker.lines[Len(chunker.lines)])
  /\ \E i \in 1..Len(chunker.lines) : IsFence(chunker.lines[i])
  /\ Len(chunker.chunks) >= 1
  /\ LineStart(chunker.chunks[1]) = 2

\* Line i lies inside a fenced block: the fence lines before it have opened
\* a block that is not closed yet.
InsideFence(lines, i) ==
  Cardinality({j \in 1..(i - 1) : IsFence(lines[j])}) % 2 = 1

StartsChunk(i) ==
  \E k \in 1..Len(chunker.chunks) : LineStart(chunker.chunks[k]) = i

MidChunk(i) ==
  \E k \in 1..Len(chunker.chunks) :
    LineStart(chunker.chunks[k]) < i /\ i <= LineEnd(chunker.chunks[k])

\* C17: in markdown chunking a heading line inside a fenced block never
\* starts a chunk (it lies inside the chunk that holds the opening fence),
\* and a heading line outside every fenced block, so also one after the
\* closing fence, always starts a chunk.
C17_FenceAwareness ==
  Chunked(".md") =>
    \A i \in 1..Len(chunker.lines) :
      IsHeading(chunker.lines[i]) =>
        IF InsideFence(chunker.lines, i)
        THEN ~StartsChunk(i) /\ MidChunk(i)
        ELSE StartsChunk(i)

\* A heading, a fenced block holding a heading, and a heading after the
\* closing fence: two chunks.
C17_Witness ==
  /\ Chunked(".md")
  /\ \E i, j1, j2, m \in 1..Len(chunker.lines) :
       /\ j1 < i /\ i < j2 /\ j2 < m
       /\ IsFence(chunker.lines[j1]) /\ IsFence(chunker.lines[j2])
       /\ IsHeading(chunker.lines[i]) /\ InsideFence(chunker.lines, i)
       /\ IsHeading(chunker.lines[m]) /\ ~InsideFence(chunker.lines, m)
  /\ IsHeading(chunker.lines[1])
  /\ Len(chunker.chunks) = 2

\* A blank line: nothing or white space only.
OnlyWhitespace(line) == {line[j] : j \in 1..Len(line)} \subseteq Whitespace

\* The maximal runs of consecutive non-blank lines, as <<first, last>>.
NonBlankRuns(lines) ==
  { r \in (1..Len(lines)) \X (1..Len(lines)) :
      /\ r[1] <= r[2]
      /\ \A j \in r[1]..r[2] : ~OnlyWhitespace(lines[j])
      /\ r[1] = 1 \/ OnlyWhitespace(lines[r[1] - 1])
      /\ r[2] = Len(lines) \/ OnlyWhitespace(lines[r[2] + 1]) }

\* C20: the chunks of a plain-text file are exactly the maximal runs of
\* consecutive non-blank lines, in file order, each chunk holding the lines
\* of its run; so no chunk holds a blank line, blank lines in any number
\* are one separator, and leading and trailing blank lines are in no range.
C20_Paragraphs ==
  Chunked(".txt") =>
    LET cs == chunker.chunks IN
      /\ {<<LineStart(cs[k]), LineEnd(cs[k])>> : k \in 1..Len(cs)}
           = NonBlankRuns(chunker.lines)
      /\ \A k \in 1..(Len(cs) - 1) : LineEnd(cs[k]) < LineStart(cs[k + 1])
      /\ \A k \in 1..Len(cs) :
           cs[k].text = SourceSlice(chunker.lines, cs[k])

\* A leading blank line, then two paragraphs separated by two blank lines.
C20_Witness ==
  /\ Chunked(".txt")
  /\ Len(chunker.lines) = 5
  /\ OnlyWhitespace(chunker.lines[1])
  /\ OnlyWhitespace(chunker.lines[3]) /\ OnlyWhitespace(chunker.lines[4])
  /\ Len(chunker.chunks) = 2
  /\ LineStart(chunker.chunks[2]) = 5

(***************************************************************************)
(* Part 3: discovery and the run operation of the ingest stage.            *)
(*                                                                         *)
(* A name is a stem alone or a stem and an extension; a path is the        *)
(* sequence of names from the root of the file system.  The file system is *)
(* fixed: it does not change between two executions.  The order in which   *)
(* readdirSync lists a directory is not specified, so every execution      *)
(* picks one order per directory.                                          *)
(***************************************************************************)
MaxRoots == 2

Directories ==
  { << <<"a">> >>, << <<"a">>, <<"Spec">> >>, << <<"b">> >> }

\* The regular files and their lines.
FileLines(path) ==
  CASE path = << <<"a">>, <<"x", ".md">> >> -> << <<"#", " ", "h">>, <<"t">> >>
    [] path = << <<"a">>, <<"y", ".TXT">> >> -> << <<"t">>, << >>, <<"t">> >>
    [] path = << <<"a">>, <<"Spec">>, <<"x", ".md">> >> ->
         << <<"t">>, <<"#", " ", "h">>, <<"t">> >>
    [] path = << <<"b">>, <<"x", ".md">> >> -> << <<" ">>, << >> >>
    [] path = << <<"b">>, <<"z", ".png">> >> -> << <<"t">> >>

RegularFiles ==
  { << <<"a">>, <<"x", ".md">> >>, << <<"a">>, <<"y", ".TXT">> >>,
    << <<"a">>, <<"Spec">>, <<"x", ".md">> >>,
    << <<"b">>, <<"x", ".md">> >>, << <<"b">>, <<"z", ".png">> >> }

\* A path that names nothing.
MissingPath == << <<"missing">> >>

\* statSync(path, { throwIfNoEntry: false })
Stat(path) ==
  IF path \in Directories THEN "directory"
  ELSE IF path \in RegularFiles THEN "file" ELSE "none"

\* The entries of a directory.
Entries(dir) ==
  { q \in Directories \cup RegularFiles :
      Len(q) = Len(dir) + 1 /\ SubSeq(q, 1, Len(dir)) = dir }

\* The orders in which a set of entries can be listed.
Listings(entries) ==
  { l \in [1..Cardinality(entries) -> entries] :
      \A i, j \in 1..Cardinality(entries) : l[i] = l[j] => i = j }

\* Every listing order of every directory.
ReaddirOrders ==
  { order \in [Directories -> UNION { Listings(Entries(d)) : d \in Directories }] :
      \A d \in Directories : order[d] \in Listings(Entries(d)) }

RECURSIVE walkDir(_, _)
RECURSIVE WalkEntries(_, _)
\* The loop of walkDir over the listed entries.
WalkEntries(entries, order) ==
  IF entries = << >> THEN << >>
  ELSE (IF Stat(Head(entries)) = "directory"
        THEN walkDir(Head(entries), order)
        ELSE <<Head(entries)>>)
       \o WalkEntries(Tail(entries), order)

walkDir(dir, order) == WalkEntries(order[dir], order)

\* String.prototype.toLowerCase on an extension.
ToLowerCase(ext) ==
  CASE ext = ".MD" -> ".md" [] ext = ".TXT" -> ".txt" [] OTHER -> ext

\* path.extname: the extension of the last name, or the empty string.
extname(path) ==
  LET name == path[Len(path)] IN IF Len(name) = 2 THEN name[2] ELSE ""

Supported(path) == ToLowerCase(extname(path)) \in SUPPORTED_EXTENSIONS

\* The text of a relative path, separated by forward slashes.
RelText(names) == Join(names, <<"/">>)

\* The text of an absolute path.
AbsText(path) == <<"/">> \o RelText(path)

pathHash(absPath) == Sha256Hex(AbsText(absPath), 8)

\* The entries one root contributes (discoverFiles, body of the loop).
FromRoot(root, order) ==
  IF Stat(root) = "file"
  THEN IF Supported(root)
       THEN << [filePath |-> root, fileId |-> RelText(<<root[Len(root)]>>)] >>
       ELSE << >>
  ELSE LET found == SelectSeq(walkDir(root, order), Supported)
       IN [i \in 1..Len(found) |->
             [filePath |-> found[i],
              fileId |-> RelText(SubSeq(found[i], Len(root) + 1, Len(found[i])))]]

RECURSIVE Collect_SkipsMissing(_, _)
\* Faulty variant: a path that does not exist is passed over.
Collect_SkipsMissing(inputPaths, order) ==
  IF inputPaths = << >> THEN [raised |-> FALSE, results |-> << >>]
  ELSE [raised |-> FALSE,
        results |-> (IF Stat(Head(inputPaths)) = "none" THEN << >>
                     ELSE FromRoot(Head(inputPaths), order))
                    \o Collect_SkipsMissing(Tail(inputPaths), order).results]

RECURSIVE Collect(_, _)
\* The loop of discoverFiles over the input paths; it throws at the first
\* path that does not exist.
Collect(inputPaths, order) ==
  IF inputPaths = << >> THEN [raised |-> FALSE, results |-> << >>]
  ELSE IF Stat(Head(inputPaths)) = "none"
  THEN [raised |-> TRUE,
        message |-> <<"Input path does not exist: ">> \o AbsText(Head(inputPaths))]
  ELSE LET rest == Collect(Tail(inputPaths), order) IN
       IF rest.raised THEN rest
       ELSE [raised |-> FALSE,
             results |-> FromRoot(Head(inputPaths), order) \o rest.results]

\* idCounts.get(fileId)
IdCount(results, fileId) ==
  Cardinality({i \in 1..Len(results) : results[i].fileId = fileId})

\* Duplicate file_ids are prefixed with the hash of their path.
Disambiguate(results) ==
  [i \in 1..Len(results) |->
     IF IdCount(results, results[i].fileId) > 1
     THEN [results[i] EXCEPT !.fileId = <<pathHash(results[i].filePath), "/">> \o @]
     ELSE results[i]]

\* The collation rank of the stems in use (alphabetical).
StemRank(name) ==
  CASE name[1] = "a" -> 1 [] name[1] = "b" -> 2 [] name[1] = "missing" -> 3
    [] name[1] = "Spec" -> 4 [] name[1] = "x" -> 5 [] name[1] = "y" -> 6
    [] name[1] = "z" -> 7

RECURSIVE localeCompare(_, _)
\* a.localeCompare(b) on two absolute paths: negative, zero or positive.
\* The stems in use differ in their first letter, so comparing name by name
\* is comparing the texts.
localeCompare(a, b) ==
  IF a = << >> /\ b = << >> THEN 0
  ELSE IF a = << >> THEN -1
  ELSE IF b = << >> THEN 1
  ELSE IF StemRank(Head(a)) < StemRank(Head(b)) THEN -1
  ELSE IF StemRank(Head(a)) > StemRank(Head(b)) THEN 1
  ELSE localeCompare(Tail(a), Tail(b))

RECURSIVE InsertSorted(_, _)
\* r is placed after every entry that does not sort after it.
InsertSorted(sorted, r) ==
  IF sorted = << >> THEN <<r>>
  ELSE IF localeCompare(r.filePath, Head(sorted).filePath) < 0
  THEN <<r>> \o sorted
  ELSE <<Head(sorted)>> \o InsertSorted(Tail(sorted), r)

\* Faulty variant: the results are left in discovery order.
SortByPath_Unsorted(results) == results

RECURSIVE SortByPath(_)
\* results.sort((a, b) => a.filePath.localeCompare(b.filePath)), a stable sort.
SortByPath(results) ==
  IF results = << >> THEN << >>
  ELSE InsertSorted(SortByPath(SubSeq(results, 1, Len(results) - 1)),
                    results[Len(results)])

discoverFiles(inputPaths, order) ==
  LET collected == Collect(inputPaths, order) IN
  IF collected.raised THEN collected
  ELSE [raised |-> FALSE, results |-> SortByPath(Disambiguate(collected.results))]

RECURSIVE AllChunks(_)
\* The loop of run over the discovered files.
AllChunks(discovered) ==
  IF discovered = << >> THEN << >>
  ELSE chunkFile(FileLines(Head(discovered).filePath),
                 ToLowerCase(extname(Head(discovered).filePath)),
                 Head(discovered).fileId)
       \o AllChunks(Tail(discovered))

\* The run operation of the ingest stage: its value, or what it throws.
IngestRun(inputPaths, order) ==
  LET discovered == discoverFiles(inputPaths, order) IN
  IF discovered.raised THEN discovered
  ELSE IF Len(discovered.results) = 0
  THEN [raised |-> TRUE, message |-> <<"No supported files found">>]
  ELSE LET allChunks == AllChunks(discovered.results) IN
       IF Len(allChunks) = 0
       THEN [raised |-> TRUE,
             message |-> <<"All ", NumText(Len(discovered.results)),
                           " supported file(s) produced zero chunks">>]
       ELSE [raised |-> FALSE, chunks |-> allChunks]

\* ctx.config.input_paths: files and directories in any combination.
RootLists ==
  UNION { [1..k -> Directories \cup RegularFiles \cup {MissingPath}] : k \in 0..MaxRoots }

InitIngest ==
  /\ RunOff
  /\ chunker = Off
  /\ multi = Off
  /\ query = Off
  /\ store = Off
  /\ generation = Off
  /\ \E roots \in RootLists :
       ingest = [phase |-> "ready", input_paths |-> roots, outputs |-> << >>]

\* The stage is executed.
IngestFirst ==
  /\ ingest.phase = "ready"
  /\ \E order \in ReaddirOrders :
       ingest' = [ingest EXCEPT
                    !.phase = "ingested",
                    !.outputs = Append(@, IngestRun(ingest.input_paths, order))]
  /\ UNCHANGED <<run, chunker, multi, query, store, generation>>

\* The stage is executed again on the same input paths.
IngestAgain ==
  /\ ingest.phase = "ingested"
  /\ \E order \in ReaddirOrders :
       ingest' = [ingest EXCEPT
                    !.phase = "reingested",
                    !.outputs = Append(@, IngestRun(ingest.input_paths, order))]
  /\ UNCHANGED <<run, chunker, multi, query, store, generation>>

NextIngest == IngestFirst \/ IngestAgain

SpecIngest == InitIngest /\ [][NextIngest]_vars

(***************************************************************************)
(* Claims about ingestion.                                                 *)
(***************************************************************************)
\* C18: two executions of the ingest stage on the same root paths with
\* unchanged files yield the same outcome: the same chunks (chunk_id,
\* file_id, text, line range) at every position, or the same fault.
C18_Deterministic ==
  ingest.phase = "reingested" => ingest.outputs[1] = ingest.outputs[2]

\* Two executions over the directory tree with three supported files below
\* one root.
C18_Witness ==
  /\ ingest.phase = "reingested"
  /\ ingest.input_paths = << << <<"a">> >> >>
  /\ ~ingest.outputs[2].raised
  /\ Len(ingest.outputs[2].chunks) >= 5

\* C19: for any list of root paths no two entries of the emitted chunk list
\* share a chunk_id.
C19_CollisionFree ==
  \A n \in 1..(IF ingest.phase = "off" THEN 0 ELSE Len(ingest.outputs)) :
    ~ingest.outputs[n].raised =>
      \A i, j \in 1..Len(ingest.outputs[n].chunks) :
        i # j => ingest.outputs[n].chunks[i].chunk_id
                   # ingest.outputs[n].chunks[j].chunk_id

(***************************************************************************)
(* Part 4: two pipeline runs side by side.                                 *)
(*                                                                         *)
(* Two calls of runPipeline, each with its own configuration, its own      *)
(* locals and its own metadata object (runPipeline keeps no state outside  *)
(* its call), over one file system that maps an output directory to what   *)
(* it holds.  The steps of the two runs interleave: the pipeline variables *)
(* hold the run that takes steps, its directory included, and Switch hands *)
(* the processor to the other run.                                         *)
(***************************************************************************)
\* Faulty variant: both runs are configured with the same directory.
OutputDirs_Shared == <<"out/run-a", "out/run-a">>

\* config.output_dir of the first and of the second run.
OutputDirs == <<"out/run-a", "out/run-b">>

\* A build in a fresh directory next to a packet command in the directory
\* an earlier build left.
TwoLaunches ==
  << [reused |-> FALSE, input |-> "undefined"],
     [reused |-> TRUE, input |-> "primer"] >>

\* Everything a call of runPipeline holds in memory.
Memory ==
  [ stages |-> stages, initialInput |-> initialInput, pc |-> pc, idx |-> idx,
    attempts |-> attempts, currentInput |-> currentInput, output |-> output,
    validatedOutput |-> validatedOutput, issues |-> issues, thrown |-> thrown,
    metadata |-> metadata, calls |-> calls, args |-> args,
    passedData |-> passedData, outcome |-> outcome,
    initialFiles |-> initialFiles ]

\* What an output directory holds.
Directory == [runJson |-> runJson, runLog |-> runLog, files |-> files]

\* The directory a command hands to runPipeline.
StartDirectory(launch) ==
  [ runJson |-> IF launch.reused THEN Some(StaleMetadata) ELSE None,
    runLog |-> IF launch.reused THEN Some(<<StaleLine>>) ELSE None,
    files |-> [f \in AllFiles |-> IF launch.reused THEN Some(StaleContent) ELSE None] ]

\* The memory of a call of runPipeline with one stage, at lines 47-56.
StartMemory(launch, ext, runId) ==
  [ stages |-> StageList(1, <<ext>>), initialInput |-> launch.input,
    pc |-> "createLogger", idx |-> 1, attempts |-> 0,
    currentInput |-> "undefined", output |-> "undefined",
    validatedOutput |-> "undefined", issues |-> << >>, thrown |-> None,
    metadata |-> [run_id |-> runId, assignment_id |-> "a1", started_at |-> "t0",
                  completed_at |-> None, stages_completed |-> << >>,
                  status |-> "running", error |-> None],
    calls |-> <<0>>, args |-> <<{}>>, passedData |-> <<None>>,
    outcome |-> "none",
    initialFiles |-> StartDirectory(launch).files ]

\* The pipeline variables hold memory m and directory d.
Holds(m, d) ==
  /\ stages = m.stages
  /\ initialInput = m.initialInput
  /\ pc = m.pc
  /\ idx = m.idx
  /\ attempts = m.attempts
  /\ currentInput = m.currentInput
  /\ output = m.output
  /\ validatedOutput = m.validatedOutput
  /\ issues = m.issues
  /\ thrown = m.thrown
  /\ metadata = m.metadata
  /\ calls = m.calls
  /\ args = m.args
  /\ passedData = m.passedData
  /\ outcome = m.outcome
  /\ initialFiles = m.initialFiles
  /\ runJson = d.runJson
  /\ runLog = d.runLog
  /\ files = d.files

\* The directories as the commands leave them; a second run configured
\* with the directory of the first finds what the first was given.
StartFileSystem(launches) ==
  [ dir \in {OutputDirs[1], OutputDirs[2]} |->
      IF dir = OutputDirs[1] THEN StartDirectory(launches[1])
      ELSE StartDirectory(launches[2]) ]

InitMulti ==
  /\ chunker = Off
  /\ ingest = Off
  /\ query = Off
  /\ store = Off
  /\ generation = Off
  /\ \E exts \in [1..2 -> Extensions] :
       LET fs == StartFileSystem(TwoLaunches) IN
         /\ Holds(StartMemory(TwoLaunches[1], exts[1], "run-new"), fs[OutputDirs[1]])
         /\ multi = [ phase |-> "two", active |-> 1,
                      parked |-> StartMemory(TwoLaunches[2], exts[2], "run-other"),
                      left |-> fs[OutputDirs[2]],
                      fs |-> fs ]

\* The processor goes to the other run.  What the running call has written
\* is in its directory; the other call goes on with its own memory and
\* with what its directory holds now.
Switch ==
  /\ multi.phase = "two"
  /\ LET other == 3 - multi.active
         fs == [multi.fs EXCEPT ![OutputDirs[multi.active]] = Directory]
     IN /\ multi' = [multi EXCEPT
                       !.active = other,
                       !.parked = Memory,
                       !.left = Directory,
                       !.fs = fs]
        /\ stages' = multi.parked.stages
        /\ initialInput' = multi.parked.initialInput
        /\ pc' = multi.parked.pc
        /\ idx' = multi.parked.idx
        /\ attempts' = multi.parked.attempts
        /\ currentInput' = multi.parked.currentInput
        /\ output' = multi.parked.output
        /\ validatedOutput' = multi.parked.validatedOutput
        /\ issues' = multi.parked.issues
        /\ thrown' = multi.parked.thrown
        /\ metadata' = multi.parked.metadata
        /\ calls' = multi.parked.calls
        /\ args' = multi.parked.args
        /\ passedData' = multi.parked.passedData
        /\ outcome' = multi.parked.outcome
        /\ initialFiles' = multi.parked.initialFiles
        /\ runJson' = fs[OutputDirs[other]].runJson
        /\ runLog' = fs[OutputDirs[other]].runLog
        /\ files' = fs[OutputDirs[other]].files
  /\ UNCHANGED <<chunker, ingest, query, store, generation>>

NextMulti ==
  \/ CreateLogger
  \/ WriteInitialMetadata
  \/ LogPipelineStarted
  \/ LogStageStarted
  \/ InvokeStage
  \/ StageRaises
  \/ FailRaised
  \/ StageReturns
  \/ ValidateSuccess
  \/ ValidateRetry
  \/ ValidateExhausted
  \/ FailExhausted
  \/ ShapeMismatch
  \/ FailShape
  \/ WriteArtifact
  \/ LogStageCompleted
  \/ RecordStage
  \/ Complete
  \/ LogPipelineCompleted
  \/ Switch

SpecMulti == InitMulti /\ [][NextMulti]_vars

UnfencedHeading(lines, i) == IsHeading(lines[i]) /\ ~InsideFence(lines, i)

\* The lines before the first unfenced heading (all lines when there is none).
PreambleLines(lines) ==
  { i \in 1..Len(lines) : \A j \in 1..i : ~UnfencedHeading(lines, j) }

\* C21: in markdown chunking every heading line outside a fenced block is
\* the first line of a chunk; the lines before the first such heading form
\* one chunk of their own, from their first to their last non-blank line,
\* when one of them is not blank, and no chunk otherwise; and no chunk
\* holds an unfenced heading anywhere but on its first line.
C21_HeadingChunks ==
  Chunked(".md") =>
    LET lines == chunker.lines
        cs == chunker.chunks
        pre == { i \in PreambleLines(lines) : ~OnlyWhitespace(lines[i]) }
    IN /\ \A i \in 1..Len(lines) : UnfencedHeading(lines, i) => StartsChunk(i)
       /\ pre # {} =>
            /\ Len(cs) >= 1
            /\ \A i \in pre : LineStart(cs[1]) <= i /\ i <= LineEnd(cs[1])
            /\ LineStart(cs[1]) \in pre /\ LineEnd(cs[1]) \in pre
       /\ pre = {} =>
            \A k \in 1..Len(cs) : LineStart(cs[k]) \notin PreambleLines(lines)
       /\ \A k \in 1..Len(cs) :
            \A i \in (LineStart(cs[k]) + 1)..LineEnd(cs[k]) :
              ~UnfencedHeading(lines, i)

\* A preamble with text, then two headings: three chunks.
C21_Witness ==
  /\ Chunked(".md")
  /\ Len(chunker.lines) >= 4
  /\ ~OnlyWhitespace(chunker.lines[1]) /\ ~IsHeading(chunker.lines[1])
  /\ ~IsFence(chunker.lines[1])
  /\ IsHeading(chunker.lines[2])
  /\ IsHeading(chunker.lines[4])
  /\ Len(chunker.chunks) = 3
  /\ LineEnd(chunker.chunks[1]) = 1

\* The supported files a root stands for: the root itself, or the files
\* below it.
FilesUnder(root) ==
  { f \in RegularFiles :
      /\ ToLowerCase(extname(f)) \in SUPPORTED_EXTENSIONS
      /\ Len(root) <= Len(f)
      /\ SubSeq(f, 1, Len(root)) = root }

\* The file has a line that is not blank.
HasContent(f) == \E i \in 1..Len(FileLines(f)) : ~OnlyWhitespace(FileLines(f)[i])

\* The chunks a file with content yields, however it is named.
ChunkCount(f) ==
  IF HasContent(f)
  THEN Len(chunkFile(FileLines(f), ToLowerCase(extname(f)), <<"f">>))
  ELSE 0

RECURSIVE ChunkCountOf(_)
ChunkCountOf(S) ==
  IF S = {} THEN 0
  ELSE LET f == CHOOSE y \in S : TRUE IN ChunkCount(f) + ChunkCountOf(S \ {f})

RECURSIVE ExpectedChunkCount(_)
ExpectedChunkCount(roots) ==
  IF roots = << >> THEN 0
  ELSE ChunkCountOf(FilesUnder(Head(roots))) + ExpectedChunkCount(Tail(roots))

\* C22: the ingest stage raises exactly when a root path does not exist, or
\* the roots hold no supported file, or no supported file under the roots
\* has a non-blank line; otherwise a file without content adds no chunk to
\* the chunks the other files yield.
C22_IngestFaults ==
  ingest.phase # "off" =>
    \A n \in 1..Len(ingest.outputs) :
      LET roots == ingest.input_paths
          missing == \E i \in 1..Len(roots) : Stat(roots[i]) = "none"
          found == UNION { FilesUnder(roots[i]) : i \in 1..Len(roots) }
      IN /\ ingest.outputs[n].raised <=>
              \/ missing
              \/ found = {}
              \/ \A f \in found : ~HasContent(f)
         /\ ~ingest.outputs[n].raised =>
              Len(ingest.outputs[n].chunks) = ExpectedChunkCount(roots)

\* A directory whose only supported file is blank, next to a file with
\* content: no fault, and the chunk of the second file alone.
C22_Witness ==
  /\ ingest.phase = "ingested"
  /\ ingest.input_paths = << << <<"b">> >>, << <<"a">>, <<"x", ".md">> >> >>
  /\ ~ingest.outputs[1].raised
  /\ Len(ingest.outputs[1].chunks) = 1

(***************************************************************************)
(* Part 5: the query builder, buildDynamicQuery.                           *)
(*                                                                         *)
(* A text is a sequence of characters.  The inputs are built from short    *)
(* pieces (words in lower and upper case, a stop word, short tokens,       *)
(* separators) set side by side, and from long texts of many different     *)
(* words, which reach the cap.                                             *)
(***************************************************************************)
MaxPieces == 4

\* English stop words (lines 5-18).
STOP_WORDS ==
  {
    <<"a">>, <<"a", "n">>, <<"t", "h", "e">>, <<"a", "n", "d">>,
    <<"o", "r">>, <<"b", "u", "t">>, <<"i", "n">>, <<"o", "n">>,
    <<"a", "t">>, <<"t", "o">>, <<"f", "o", "r">>, <<"o", "f">>,
    <<"w", "i", "t", "h">>, <<"b", "y">>, <<"f", "r", "o", "m">>,
    <<"a", "s">>, <<"i", "s">>, <<"w", "a", "s">>, <<"a", "r", "e">>,
    <<"w", "e", "r", "e">>, <<"b", "e">>, <<"b", "e", "e", "n">>,
    <<"b", "e", "i", "n", "g">>, <<"h", "a", "v", "e">>, <<"h", "a", "s">>,
    <<"h", "a", "d">>, <<"d", "o">>, <<"d", "o", "e", "s">>,
    <<"d", "i", "d">>, <<"w", "i", "l", "l">>, <<"w", "o", "u", "l", "d">>,
    <<"c", "o", "u", "l", "d">>, <<"s", "h", "o", "u", "l", "d">>,
    <<"m", "a", "y">>, <<"m", "i", "g", "h", "t">>,
    <<"s", "h", "a", "l", "l">>, <<"c", "a", "n">>, <<"n", "e", "e", "d">>,
    <<"m", "u", "s", "t">>, <<"i", "t">>, <<"i", "t", "s">>,
    <<"t", "h", "i", "s">>, <<"t", "h", "a", "t">>,
    <<"t", "h", "e", "s", "e">>, <<"t", "h", "o", "s", "e">>, <<"i">>,
    <<"y", "o", "u">>, <<"h", "e">>, <<"s", "h", "e">>, <<"w", "e">>,
    <<"t", "h", "e", "y">>, <<"m", "e">>, <<"h", "i", "m">>,
    <<"h", "e", "r">>, <<"u", "s">>, <<"t", "h", "e", "m">>, <<"m", "y">>,
    <<"y", "o", "u", "r">>, <<"h", "i", "s">>, <<"o", "u", "r">>,
    <<"t", "h", "e", "i", "r">>, <<"w", "h", "a", "t">>,
    <<"w", "h", "i", "c", "h">>, <<"w", "h", "o">>, <<"w", "h", "o", "m">>,
    <<"n", "o", "t">>, <<"n", "o">>, <<"n", "o", "r">>, <<"i", "f">>,
    <<"t", "h", "e", "n">>, <<"e", "l", "s", "e">>, <<"w", "h", "e", "n">>,
    <<"w", "h", "e", "r", "e">>, <<"h", "o", "w">>, <<"a", "l", "l">>,
    <<"e", "a", "c", "h">>, <<"e", "v", "e", "r", "y">>,
    <<"b", "o", "t", "h">>, <<"f", "e", "w">>, <<"m", "o", "r", "e">>,
    <<"m", "o", "s", "t">>, <<"o", "t", "h", "e", "r">>,
    <<"s", "o", "m", "e">>, <<"s", "u", "c", "h">>, <<"o", "n", "l", "y">>,
    <<"o", "w", "n">>, <<"s", "a", "m", "e">>, <<"s", "o">>,
    <<"t", "h", "a", "n">>, <<"t", "o", "o">>, <<"v", "e", "r", "y">>,
    <<"j", "u", "s", "t">>, <<"a", "b", "o", "u", "t">>,
    <<"a", "b", "o", "v", "e">>, <<"a", "f", "t", "e", "r">>,
    <<"b", "e", "f", "o", "r", "e">>, <<"b", "e", "t", "w", "e", "e", "n">>,
    <<"i", "n", "t", "o">>, <<"t", "h", "r", "o", "u", "g", "h">>,
    <<"d", "u", "r", "i", "n", "g">>, <<"o", "u", "t">>, <<"u", "p">>,
    <<"d", "o", "w", "n">>, <<"o", "v", "e", "r">>,
    <<"u", "n", "d", "e", "r">>, <<"a", "l", "s", "o">>
  }

MIN_TERM_LENGTH == 3
MAX_TERMS == 40

UpperCaseLetters ==
  <<"A", "B", "C", "D", "E", "F", "G", "H", "I", "J", "K", "L", "M",
    "N", "O", "P", "Q", "R", "S", "T", "U", "V", "W", "X", "Y", "Z">>

LowerCaseLetters ==
  <<"a", "b", "c", "d", "e", "f", "g", "h", "i", "j", "k", "l", "m",
    "n", "o", "p", "q", "r", "s", "t", "u", "v", "w", "x", "y", "z">>

DigitCharacters == <<"0", "1", "2", "3", "4", "5", "6", "7", "8", "9">>

\* The lower-case letter of every upper-case letter.
LowerCaseOf ==
  [c \in {UpperCaseLetters[k] : k \in 1..Len(UpperCaseLetters)} |->
     LowerCaseLetters[CHOOSE k \in 1..Len(UpperCaseLetters) : UpperCaseLetters[k] = c]]

\* String.prototype.toLowerCase, character by character.
TextToLowerCase(text) ==
  [i \in 1..Len(text) |->
     IF text[i] \in DOMAIN LowerCaseOf THEN LowerCaseOf[text[i]] ELSE text[i]]

\* The characters the pattern of line 39 does not split on: a-z and 0-9.
TermCharacters ==
  {LowerCaseLetters[k] : k \in 1..Len(LowerCaseLetters)}
    \cup {DigitCharacters[k] : k \in 1..Len(DigitCharacters)}

IsTermCharacter(c) == c \in TermCharacters

RECURSIVE SplitFrom(_, _, _, _)
\* String.prototype.split on runs of other characters: a run closes the
\* word before it (an empty one when the text starts with the run), and
\* the end of the text closes the last word (empty after a run).
SplitFrom(text, i, word, words) ==
  IF i > Len(text) THEN Append(words, word)
  ELSE IF IsTermCharacter(text[i]) THEN SplitFrom(text, i + 1, Append(word, text[i]), words)
  ELSE IF i > 1 /\ ~IsTermCharacter(text[i - 1]) THEN SplitFrom(text, i + 1, word, words)
  ELSE SplitFrom(text, i + 1, << >>, Append(words, word))

\* text.toLowerCase().split(..)
WordsOf(text) == SplitFrom(TextToLowerCase(text), 1, << >>, << >>)

\* Faulty variant: a word seen before is taken again.
WordStep_NoDedup(st, word) ==
  IF Len(word) >= MIN_TERM_LENGTH /\ word \notin STOP_WORDS
  THEN [seen |-> st.seen \cup {word}, terms |-> Append(st.terms, word)]
  ELSE st

\* lines 41-48: the body of the inner loop
WordStep(st, word) ==
  IF Len(word) >= MIN_TERM_LENGTH /\ word \notin STOP_WORDS /\ word \notin st.seen
  THEN [seen |-> st.seen \cup {word}, terms |-> Append(st.terms, word)]
  ELSE st

RECURSIVE WordLoop(_, _)
WordLoop(st, words) ==
  IF words = << >> THEN st ELSE WordLoop(WordStep(st, Head(words)), Tail(words))

\* The guard on st.terms never holds: it settles the state built so far at
\* each text, as the loop of the source does, before the next text is read.
RECURSIVE TextLoop(_, _)
TextLoop(st, texts) ==
  IF texts = << >> \/ Len(st.terms) < 0 THEN st
  ELSE TextLoop(WordLoop(st, WordsOf(Head(texts))), Tail(texts))

\* Array.prototype.slice(0, n)
SliceFirst(seq, n) == SubSeq(seq, 1, IF Len(seq) < n THEN Len(seq) ELSE n)

buildDynamicQuery(texts) ==
  Join(SliceFirst(TextLoop([seen |-> {}, terms |-> << >>], texts).terms, MAX_TERMS),
       <<" OR ">>)

\* The pieces: a stop word in two cases, a word in two cases, a short
\* token with a digit, and two separators.
Pieces ==
  { <<"t", "h", "e">>, <<"T", "h", "e">>, <<"t", "e", "e">>, <<"T", "E", "E">>,
    <<"x", "1">>, <<" ">>, <<"_", "(">> }

\* The mark between two texts of the list.
TextBreak == <<"next text">>

RECURSIVE TextsOf(_, _, _)
\* The list of texts a sequence of pieces and marks stands for.
TextsOf(pieces, text, texts) ==
  IF pieces = << >> THEN Append(texts, text)
  ELSE IF Head(pieces) = TextBreak THEN TextsOf(Tail(pieces), << >>, Append(texts, text))
  ELSE TextsOf(Tail(pieces), text \o Head(pieces), texts)

ShortInputs ==
  { TextsOf(p, << >>, << >>) :
      p \in UNION { [1..k -> Pieces \cup {TextBreak}] : k \in 0..MaxPieces } }

\* The i-th of many different words.
NumberedWord(i) == <<"w", DigitCharacters[(i \div 10) + 1], DigitCharacters[(i % 10) + 1]>>

\* n different words, one text each; the word at the cut comes twice.
ManyWords(n, cut) ==
  [i \in 1..(n + 1) |-> NumberedWord(IF i <= cut THEN i ELSE i - 1)]

LongInputs ==
  { ManyWords(n, cut) : n \in (MAX_TERMS - 2)..(MAX_TERMS + 2), cut \in {1, MAX_TERMS - 2} }

InitQuery ==
  /\ RunOff
  /\ chunker = Off
  /\ ingest = Off
  /\ multi = Off
  /\ store = Off
  /\ generation = Off
  /\ \E texts \in {<< >>} \cup ShortInputs \cup LongInputs :
       query = [phase |-> "called", texts |-> texts, result |-> << >>]

BuildDynamicQuery ==
  /\ query.phase = "called"
  /\ query' = [query EXCEPT !.phase = "returned",
                            !.result = buildDynamicQuery(query.texts)]
  /\ UNCHANGED <<run, chunker, ingest, multi, store, generation>>

NextQuery == BuildDynamicQuery

SpecQuery == InitQuery /\ [][NextQuery]_vars

(***************************************************************************)
(* Claims about the query builder.                                         *)
(***************************************************************************)
\* The tokens of the texts: the maximal runs of letters and digits of each
\* lower-cased text, as <<text, first, last>>.
TokensOf(texts) ==
  UNION { LET low == TextToLowerCase(texts[j]) IN
            { o \in {j} \X (1..Len(low)) \X (1..Len(low)) :
                /\ o[2] <= o[3]
                /\ \A i \in o[2]..o[3] : IsTermCharacter(low[i])
                /\ o[2] = 1 \/ ~IsTermCharacter(low[o[2] - 1])
                /\ o[3] = Len(low) \/ ~IsTermCharacter(low[o[3] + 1]) }
        : j \in 1..Len(texts) }

TokenText(texts, o) == SubSeq(TextToLowerCase(texts[o[1]]), o[2], o[3])
TokenBefore(o1, o2) == o1[1] < o2[1] \/ (o1[1] = o2[1] /\ o1[2] < o2[2])

\* The tokens that are long enough, no stop word, and not met before.
FirstSurvivors(texts) ==
  LET kept == { o \in TokensOf(texts) :
                  /\ Len(TokenText(texts, o)) >= 3
                  /\ TokenText(texts, o) \notin STOP_WORDS }
  IN { o \in kept :
         \A o2 \in kept :
           TokenBefore(o2, o) => TokenText(texts, o2) # TokenText(texts, o) }

\* The surviving terms in first-seen order, 40 at most.
ExpectedTerms(texts) ==
  LET firsts == FirstSurvivors(texts)
      n == IF Cardinality(firsts) < 40 THEN Cardinality(firsts) ELSE 40
  IN [k \in 1..n |->
        TokenText(texts,
          CHOOSE o \in firsts :
            Cardinality({o2 \in firsts : TokenBefore(o2, o)}) = k - 1)]

\* C23: buildDynamicQuery returns the first at most 40 lower-cased tokens of
\* letters and digits that have 3 characters or more and are no stop word,
\* each once, in first-seen order over all texts, joined by " OR "; the
\* result is empty exactly when no token survives.
C23_DynamicQuery ==
  query.phase = "returned" =>
    /\ query.result = Join(ExpectedTerms(query.texts), <<" OR ">>)
    /\ query.result = << >> <=> FirstSurvivors(query.texts) = {}

\* More than 40 different words, one of them in two texts: 40 terms.
C23_Witness ==
  /\ query.phase = "returned"
  /\ Cardinality(FirstSurvivors(query.texts)) > 40
  /\ Cardinality(TokensOf(query.texts)) > Cardinality(FirstSurvivors(query.texts))
  /\ Cardinality({i \in 1..Len(query.result) : query.result[i] = " OR "}) = 39

(***************************************************************************)
(* Part 6: the content index, src/src/storage.ts.                          *)
(*                                                                         *)
(* A database is a record of its tables and their rows.  The file on disk  *)
(* holds what was committed; a connection that writes also has a session,  *)
(* the database as that connection sees it.  A text is a sequence of       *)
(* words, a query a sequence of words, blanks and the word OR.             *)
(***************************************************************************)
MaxChunks == 2

DEFAULT_LIMIT == 20

BIAS_BOOST == 10

\* The file with no tables in it, as a new Database creates it.
EmptyDatabase == [tables |-> {}, files |-> {}, chunks |-> << >>, fts |-> {}]

JsonParse(json) == json.val

FileIdsOf(db) == { row.file_id : row \in db.files }

ChunkIdsOf(db) == { db.chunks[i].chunk_id : i \in 1..Len(db.chunks) }

\* The three CREATE statements; the first one throws when the table exists.
CreateTables(db) ==
  IF "files" \in db.tables
    THEN [threw |-> TRUE, db |-> db]
    ELSE [threw |-> FALSE,
          db |-> [db EXCEPT !.tables = {"files", "chunks", "chunks_fts"}]]

\* INSERT OR IGNORE of one row per entry of the tag map, in one transaction.
InsertFiles(db, fileTags) ==
  [db EXCEPT !.files =
     db.files \cup { [file_id |-> f, tag |-> fileTags[f]] :
                       f \in (DOMAIN fileTags) \ FileIdsOf(db) }]

ChunkRow(chunk) ==
  [chunk_id |-> chunk.chunk_id, file_id |-> chunk.file_id, text |-> chunk.text,
   source_ref |-> JsonStringify(chunk.source_ref)]

\* Whether some INSERT of the transaction over the chunks is refused: a
\* chunk_id that is already a key, or, where the build of the database
\* enforces foreign keys, a file_id that is not a row of files.
InsertRefused(db, chunks, foreignKeys) ==
  \/ \E i \in 1..Len(chunks) : chunks[i].chunk_id \in ChunkIdsOf(db)
  \/ \E i, j \in 1..Len(chunks) : i < j /\ chunks[i].chunk_id = chunks[j].chunk_id
  \/ foreignKeys /\ \E i \in 1..Len(chunks) : chunks[i].file_id \notin FileIdsOf(db)

\* The chunks table with the rows of the given chunks appended.
WithChunks(db, chunks) ==
  [db EXCEPT !.chunks = db.chunks \o [i \in 1..Len(chunks) |-> ChunkRow(chunks[i])]]

\* INSERT INTO chunks_fts(rowid, text) SELECT rowid, text FROM chunks.
PopulateFts(db) ==
  [db EXCEPT !.fts = { [rowid |-> i, text |-> db.chunks[i].text] :
                         i \in 1..Len(db.chunks) }]

\* A connection: the database as it sees it (session), the committed file
\* (disk), and whether it has a transaction open.
Connection(db) ==
  [threw |-> FALSE, session |-> db, disk |-> db, inTransaction |-> FALSE]

\* One statement changes the session, and the file too unless it runs
\* inside an open transaction.
Statement(conn, db) ==
  IF conn.inTransaction
    THEN [conn EXCEPT !.session = db]
    ELSE [conn EXCEPT !.session = db, !.disk = db]

\* The transaction over the chunks, begun and never committed.
InsertChunks_Uncommitted(conn, chunks, foreignKeys) ==
  IF InsertRefused(conn.session, chunks, foreignKeys)
    THEN [conn EXCEPT !.threw = TRUE]
    ELSE [conn EXCEPT !.session = WithChunks(conn.session, chunks),
                      !.inTransaction = TRUE]

\* The transaction over the chunks: every row or, when one is refused, none.
InsertChunks(conn, chunks, foreignKeys) ==
  IF InsertRefused(conn.session, chunks, foreignKeys)
    THEN [conn EXCEPT !.threw = TRUE]
    ELSE Statement(conn, WithChunks(conn.session, chunks))

\* createStorage, statement by statement: the connection when it returns
\* or throws.  before is the file it finds, or None; foreignKeys is whether
\* the database enforces foreign keys.  Nothing is undone on a throw.
createStorage(before, chunks, fileTags, foreignKeys) ==
  LET opened  == Connection(IF before = None THEN EmptyDatabase ELSE Get(before))
      created == CreateTables(opened.session)
      tagged  == Statement(opened, InsertFiles(created.db, fileTags))
      filled  == InsertChunks(tagged, chunks, foreignKeys)
  IN  IF created.threw THEN [opened EXCEPT !.threw = TRUE]
      ELSE IF filled.threw THEN filled
      ELSE Statement(filled, PopulateFts(filled.session))

\* openStorage: a read-only connection to the file, which has to exist.
openStorage(file) ==
  IF file = None THEN [threw |-> TRUE] ELSE Connection(Get(file))

\* Only the empty query counts as blank.
IsBlankQuery_EmptyOnly(q) == q = << >>

\* !options.query.trim(): nothing but whitespace in the query.
IsBlankQuery(q) == \A i \in 1..Len(q) : q[i] \in Whitespace

\* The terms of a full-text query: its words other than OR.
QueryTerms(q) == { q[i] : i \in 1..Len(q) } \ (Whitespace \cup {"OR"})

\* chunks_fts MATCH ?: terms joined by OR ask for one of them, terms side
\* by side for all of them.
Matches(text, q) ==
  LET words == { text[i] : i \in 1..Len(text) }
  IN  IF \E i \in 1..Len(q) : q[i] = "OR"
        THEN QueryTerms(q) \cap words # {}
        ELSE QueryTerms(q) \subseteq words

\* chunks_fts.rank: the better the match, the lower the number.  Every
\* occurrence of a term of the query weighs the same, 6, so that two more
\* occurrences outweigh the boost.
Rank(text, q) ==
  0 - 6 * Cardinality({ i \in 1..Len(text) : text[i] \in QueryTerms(q) })

\* The boost added to the rank, which moves the chunk back.
AdjustedRank_Added(rank, tag, bias) ==
  rank + (IF tag = bias THEN BIAS_BOOST ELSE 0)

\* chunks_fts.rank - CASE WHEN f.tag = ? THEN ? ELSE 0 END
AdjustedRank(rank, tag, bias) ==
  rank - (IF tag = bias THEN BIAS_BOOST ELSE 0)

TagOf(db, fileId) == (CHOOSE row \in db.files : row.file_id = fileId).tag

\* The rows the SELECT joins: rows of chunks_fts that match, each with its
\* row of chunks and, when a bias is given, with the row of files of its
\* file.  A row is named by its rowid.
Selected(db, options) ==
  { row.rowid : row \in
      { r \in db.fts :
          /\ Matches(r.text, options.query)
          /\ r.rowid \in 1..Len(db.chunks)
          /\ options.bias # None =>
               db.chunks[r.rowid].file_id \in FileIdsOf(db) } }

\* adjusted_rank of every selected row.
AdjustedRanks(db, options) ==
  [i \in Selected(db, options) |->
     IF options.bias = None
       THEN Rank(db.chunks[i].text, options.query)
       ELSE AdjustedRank(Rank(db.chunks[i].text, options.query),
                         TagOf(db, db.chunks[i].file_id), Get(options.bias))]

RECURSIVE OrderBy(_, _)
\* ORDER BY adjusted_rank; rows of equal rank come in the order of the table.
OrderBy(rowids, rank) ==
  IF rowids = {} THEN << >>
  ELSE LET first == CHOOSE i \in rowids :
                      \A j \in rowids :
                        rank[i] < rank[j] \/ (rank[i] = rank[j] /\ i <= j)
       IN  <<first>> \o OrderBy(rowids \ {first}, rank)

\* One row of chunks as the chunk handed back.
ChunkOf(row) ==
  [chunk_id |-> row.chunk_id, file_id |-> row.file_id, text |-> row.text,
   source_ref |-> JsonParse(row.source_ref)]

ChunksOf(db, rowids) == [k \in 1..Len(rowids) |-> ChunkOf(db.chunks[rowids[k]])]

\* retrieve of a reader over the database db; closed tells whether close()
\* was called on it before.
retrieve(db, closed, options) ==
  LET limit == IF options.limit = None THEN DEFAULT_LIMIT ELSE Get(options.limit)
  IN  IF IsBlankQuery(options.query)
        THEN [raised |-> FALSE, chunks |-> << >>]
      ELSE IF closed \/ "chunks_fts" \notin db.tables \/ QueryTerms(options.query) = {}
        THEN [raised |-> TRUE, chunks |-> << >>]
      ELSE [raised |-> FALSE,
            chunks |-> ChunksOf(db, SliceFirst(OrderBy(Selected(db, options),
                                                       AdjustedRanks(db, options)),
                                               limit))]

\* The rows of chunks whose file has a row in files, whatever its tag.
TaggedRows_AnyTag(db, tag) ==
  { i \in 1..Len(db.chunks) : db.chunks[i].file_id \in FileIdsOf(db) }

\* The rows of chunks whose file carries the tag.
TaggedRows(db, tag) ==
  { i \in 1..Len(db.chunks) :
      /\ db.chunks[i].file_id \in FileIdsOf(db)
      /\ TagOf(db, db.chunks[i].file_id) = tag }

\* retrieveByTag: up to limit chunks of the files that carry the tag, in the
\* order of the table; no query takes part.
retrieveByTag(db, closed, tag, limit) ==
  IF closed \/ "chunks" \notin db.tables
    THEN [raised |-> TRUE, chunks |-> << >>]
    ELSE [raised |-> FALSE,
          chunks |-> ChunksOf(db, SliceFirst(OrderBy(TaggedRows(db, tag),
                                                     [i \in TaggedRows(db, tag) |-> 0]),
                                             limit))]

\* The answer of a reader to a request of either kind.
Answer(db, closed, request) ==
  IF request.kind = "tag"
    THEN retrieveByTag(db, closed, request.tag, request.limit)
    ELSE retrieve(db, closed, request)

(***************************************************************************)
(* The inputs of the content index and its steps.                          *)
(***************************************************************************)
ChunkTexts == { <<"data">>, <<"data", "data", "fox">>, <<"dog">> }

\* Tag maps over the files f1 and f2; the first one has no tag for f2.
FileTagMaps ==
  { [f \in {"f1"} |-> "spec"],
    [f \in {"f1", "f2"} |-> "spec"],
    [f \in {"f1", "f2"} |-> IF f = "f1" THEN "spec" ELSE "notes"] }

\* The i-th chunk of a list; repeated says that it carries the chunk_id of
\* the first one.
InputChunk(i, fileId, text, repeated) ==
  [chunk_id |-> IF repeated THEN 1 ELSE i, file_id |-> fileId, text |-> text,
   source_ref |-> [file_id |-> fileId, line_start |-> i, line_end |-> i]]

ChunkLists(most) ==
  UNION { { [i \in 1..n |-> InputChunk(i, fileIds[i], texts[i], repeated /\ i = 2)] :
              fileIds \in [1..n -> {"f1", "f2"}],
              texts \in [1..n -> ChunkTexts],
              repeated \in BOOLEAN } : n \in 0..most }

\* More matching chunks than the default limit lets through.
ManyChunks ==
  [i \in 1..(DEFAULT_LIMIT + 2) |->
     InputChunk(i, IF i % 2 = 0 THEN "f1" ELSE "f2",
                IF i % 3 = 0 THEN <<"data", "data", "fox">> ELSE <<"data">>, FALSE)]

\* An index an earlier run has left in the directory.
OldIndex ==
  createStorage(None, <<InputChunk(1, "f1", <<"dog">>, FALSE)>>,
                [f \in {"f1"} |-> "spec"], FALSE).disk

Queries ==
  { << >>, <<" ", "\t">>, <<"data">>, <<"data", " ", "fox">>,
    <<"data", " ", "OR", " ", "fox">> }

QueryRequests ==
  { [kind |-> "query", query |-> q, limit |-> l, bias |-> b] :
      q \in Queries, l \in {None, Some(0), Some(1)},
      b \in {None, Some("spec"), Some("notes")} }

TagRequests ==
  { [kind |-> "tag", tag |-> t, limit |-> l] :
      t \in {"spec", "notes", "slides"}, l \in {1, DEFAULT_LIMIT} }

InitStore ==
  /\ RunOff
  /\ chunker = Off
  /\ ingest = Off
  /\ multi = Off
  /\ query = Off
  /\ generation = Off
  /\ \E before \in {None, Some(OldIndex)}, fileTags \in FileTagMaps :
     \E chunks \in (IF before = None THEN ChunkLists(MaxChunks) \cup {ManyChunks}
                                     ELSE ChunkLists(1)) :
       store = [phase |-> "start", chunks |-> chunks, fileTags |-> fileTags,
                before |-> before, file |-> before, threw |-> FALSE,
                writer |-> "none", session |-> EmptyDatabase, reader |-> "none",
                asked |-> None, first |-> None, second |-> None]

\* createStorage(outputDir, chunks, fileTags) on a database that does or
\* does not enforce foreign keys.
CreateStorage ==
  /\ store.phase = "start"
  /\ \E foreignKeys \in BOOLEAN :
       LET conn == createStorage(store.before, store.chunks, store.fileTags, foreignKeys)
       IN  store' = [store EXCEPT !.phase = "created",
                                  !.file = Some(conn.disk),
                                  !.threw = conn.threw,
                                  !.session = conn.session,
                                  !.writer = IF conn.threw THEN "none" ELSE "open"]
  /\ UNCHANGED <<run, chunker, ingest, multi, query, generation>>

\* reader.retrieve(options) on the reader createStorage returned.
Retrieve ==
  /\ store.phase = "created"
  /\ store.writer \in {"open", "closed"}
  /\ store.asked = None
  /\ \E request \in QueryRequests :
       store' = [store EXCEPT
                   !.asked = Some(request),
                   !.first = Some(retrieve(store.session, store.writer = "closed", request)),
                   !.phase = IF store.writer = "closed" THEN "done" ELSE "created"]
  /\ UNCHANGED <<run, chunker, ingest, multi, query, generation>>

\* reader.retrieveByTag(tag, limit) on the reader createStorage returned.
RetrieveByTag ==
  /\ store.phase = "created"
  /\ store.writer = "open"
  /\ store.asked = None
  /\ \E request \in TagRequests :
       store' = [store EXCEPT
                   !.asked = Some(request),
                   !.first = Some(retrieveByTag(store.session, FALSE,
                                                request.tag, request.limit))]
  /\ UNCHANGED <<run, chunker, ingest, multi, query, generation>>

\* reader.close() on the writing connection: what it had not committed is
\* gone.
Close ==
  /\ store.phase = "created"
  /\ store.writer = "open"
  /\ store' = [store EXCEPT !.writer = "closed", !.session = Get(store.file)]
  /\ UNCHANGED <<run, chunker, ingest, multi, query, generation>>

\* openStorage(outputDir), before any build or once no connection writes
\* any more.
OpenStorage ==
  /\ \/ store.phase = "start"
     \/ store.phase = "created" /\ store.writer \in {"none", "closed"}
  /\ store.reader = "none"
  /\ store' = [store EXCEPT
                 !.reader = IF openStorage(store.file).threw THEN "missing" ELSE "open",
                 !.phase = IF store.phase = "start" THEN "done" ELSE "created"]
  /\ UNCHANGED <<run, chunker, ingest, multi, query, generation>>

\* The reader of openStorage answers the request the first reader had, or
\* any request when there was none.
RetrieveReopened ==
  /\ store.phase = "created"
  /\ store.reader = "open"
  /\ \E request \in (IF store.asked = None THEN QueryRequests \cup TagRequests
                                           ELSE {Get(store.asked)}) :
       store' = [store EXCEPT
                   !.phase = "done",
                   !.asked = Some(request),
                   !.second = Some(Answer(openStorage(store.file).session, FALSE, request))]
  /\ UNCHANGED <<run, chunker, ingest, multi, query, generation>>

NextStore ==
  \/ CreateStorage
  \/ Retrieve
  \/ RetrieveByTag
  \/ Close
  \/ OpenStorage
  \/ RetrieveReopened

SpecStore == InitStore /\ [][NextStore]_vars

(***************************************************************************)
(* Claims about the content index.                                         *)
(***************************************************************************)
\* The answers given so far, each with the reader that gave it.
Answered == { a \in {store.first, store.second} : a # None }

\* A keyword request has been answered.
QueryAnswered ==
  /\ store.phase \in {"created", "done"}
  /\ store.asked # None
  /\ Get(store.asked).kind = "query"

\* The build went through, so the index is the one of the given chunks and
\* tag map.
Built == store.phase \in {"created", "done"} /\ ~store.threw

NothingButWhitespace(q) == \A i \in 1..Len(q) : q[i] \in {" ", "\t"}

\* C24: retrieve with an empty or whitespace-only query returns the empty
\* list and does not raise, whatever the index holds, whatever the limit
\* and the bias tag, and also on a reader that was closed.
C24_BlankQuery ==
  (QueryAnswered /\ NothingButWhitespace(Get(store.asked).query)) =>
    \A a \in Answered : Get(a) = [raised |-> FALSE, chunks |-> << >>]

\* A query of blanks and a bias tag, over an index that holds chunks.
C24_Witness ==
  /\ QueryAnswered
  /\ Get(store.asked).query = <<" ", "\t">>
  /\ Get(store.asked).bias = Some("spec")
  /\ Len(store.session.chunks) >= 1
  /\ store.first = Some([raised |-> FALSE, chunks |-> << >>])

\* Whether the file of a chunk carries the tag in the tag map of the build.
Carries(chunk, tag) ==
  /\ chunk.file_id \in DOMAIN store.fileTags
  /\ store.fileTags[chunk.file_id] = tag

\* The relevance of a chunk for the request, lowered by the boost when its
\* file carries the bias tag.
Boosted(chunk) ==
  Rank(chunk.text, Get(store.asked).query)
    - (IF Carries(chunk, Get(Get(store.asked).bias)) THEN BIAS_BOOST ELSE 0)

\* C25: with a bias tag, the chunks come in the order of their relevance
\* rank lowered by the constant boost for chunks of files carrying the tag;
\* so of two returned chunks of equal relevance, the one whose file carries
\* the tag comes before the one whose file does not, and the latter is
\* never returned without the former.
C25_BiasOrdering ==
  (Built /\ QueryAnswered /\ Get(store.asked).bias # None) =>
    \A a \in Answered :
      LET chunks == Get(a).chunks
          q == Get(store.asked).query
          tag == Get(Get(store.asked).bias)
      IN  /\ \A k, l \in 1..Len(chunks) :
                k < l => Boosted(chunks[k]) <= Boosted(chunks[l])
          /\ \A l \in 1..Len(chunks), i \in 1..Len(store.chunks) :
                ( /\ ~Get(a).raised
                  /\ Matches(store.chunks[i].text, q)
                  /\ Rank(store.chunks[i].text, q) = Rank(chunks[l].text, q)
                  /\ Carries(store.chunks[i], tag)
                  /\ ~Carries(chunks[l], tag) )
                => \E k \in 1..(l - 1) : chunks[k].chunk_id = store.chunks[i].chunk_id

\* The second chunk of the table comes first, for its file carries the bias
\* tag and the file of the first does not; both are as relevant.
C25_Witness ==
  /\ Built
  /\ QueryAnswered
  /\ Get(store.asked).bias = Some("notes")
  /\ store.first # None
  /\ LET chunks == Get(store.first).chunks
     IN  /\ Len(chunks) = 2
         /\ chunks[1].chunk_id = 2
         /\ chunks[2].chunk_id = 1
         /\ chunks[1].text = chunks[2].text
         /\ Carries(chunks[1], "notes")
         /\ Carries(chunks[2], "spec")

ChunkIds(chunks) == { chunks[k].chunk_id : k \in 1..Len(chunks) }

\* The limit in force for the request that was answered.
Cap ==
  IF Get(store.asked).limit = None THEN 20 ELSE Get(Get(store.asked).limit)

\* The chunks of the build that match the query that was asked.
MatchingChunks ==
  { i \in 1..Len(store.chunks) :
      Matches(store.chunks[i].text, Get(store.asked).query) }

\* C26: a bias tag never excludes a chunk: over an index built from any
\* chunk list and tag map that createStorage accepted, when the limit is at
\* least the number of matching chunks, retrieve with a bias tag returns the
\* same set of chunks as the same request without the bias tag.
C26_BiasNeverExcludes ==
  ( /\ Built
    /\ QueryAnswered
    /\ Get(store.asked).bias # None
    /\ Cap >= Cardinality(MatchingChunks) ) =>
    \A a \in Answered :
      ~Get(a).raised =>
        ChunkIds(Get(a).chunks) =
          ChunkIds(retrieve(Get(store.file), FALSE,
                            [Get(store.asked) EXCEPT !.bias = None]).chunks)

\* A lookup by tag has been answered.
TagAnswered ==
  /\ store.phase \in {"created", "done"}
  /\ store.asked # None
  /\ Get(store.asked).kind = "tag"

\* C27: retrieveByTag(tag, limit) returns at most limit chunks, each of a
\* file that carries exactly that tag, so none of a file with another tag,
\* and nothing when no file carries the tag; it takes no keyword query.
C27_TagLookup ==
  (Built /\ TagAnswered) =>
    \A a \in Answered :
      LET chunks == Get(a).chunks
          tag == Get(store.asked).tag
      IN  /\ Len(chunks) <= Get(store.asked).limit
          /\ \A k \in 1..Len(chunks) :
               /\ Carries(chunks[k], tag)
               /\ chunks[k].chunk_id \in ChunkIds(store.chunks)
          /\ (\A f \in DOMAIN store.fileTags : store.fileTags[f] # tag)
               => chunks = << >>

\* The one chunk of the file tagged notes is returned, the chunk of the
\* file tagged spec is not.
C27_Witness ==
  /\ Built
  /\ TagAnswered
  /\ Get(store.asked).tag = "notes"
  /\ store.first # None
  /\ Len(Get(store.first).chunks) = 1
  /\ \E i \in 1..Len(store.chunks) : Carries(store.chunks[i], "spec")

\* C28: over a built index, the reader that openStorage gives once the
\* writer is closed answers a request (query, limit, bias) with exactly the
\* list of chunks, in the same order, that the reader of createStorage
\* gave for it.
C28_Reopening ==
  (Built /\ QueryAnswered /\ store.first # None /\ store.second # None) =>
    Get(store.second) = Get(store.first)

\* Both readers have answered a biased request with two chunks.
C28_Witness ==
  /\ Built
  /\ QueryAnswered
  /\ store.writer = "closed"
  /\ store.first # None
  /\ store.second # None
  /\ Get(store.asked).bias # None
  /\ Len(Get(store.second).chunks) = 2

\* C29: a build is all or nothing: when createStorage throws, a reader
\* opened on the directory afterwards finds no index that answers queries,
\* other than one that was there before the build.
C29_AllOrNothing ==
  ( /\ store.phase \in {"created", "done"}
    /\ store.threw
    /\ store.second # None
    /\ ~Get(store.second).raised ) =>
    store.file = store.before

\* C30: retrieve returns at most limit chunks, at most 20 when no limit is
\* given, and every matching chunk when no more than that match.
C30_Limit ==
  (Built /\ QueryAnswered) =>
    \A a \in Answered :
      ~Get(a).raised =>
        LET matching == IF NothingButWhitespace(Get(store.asked).query)
                          THEN {}
                          ELSE { store.chunks[i].chunk_id : i \in MatchingChunks }
        IN  /\ Len(Get(a).chunks) <= Cap
            /\ ChunkIds(Get(a).chunks) \subseteq matching
            /\ Cardinality(matching) <= Cap => ChunkIds(Get(a).chunks) = matching

(***************************************************************************)
(* Further claims about a run of the orchestrator.                         *)
(***************************************************************************)
\* C37: a run creates or changes no file of the output directory besides
\* run.json, run.log and the outputFilename of stages whose candidate passed
\* validation; every other file is as it was when the run started.
C37_Frame ==
  \A f \in AllFiles :
    files[f] # initialFiles[f] =>
      \E k \in 1..NumStages : FileOf(k) = f /\ IsSome(passedData[k])

\* In a directory an earlier run has used, the first stage wrote its
\* artifact, the second failed; its file and the others are as they were.
C37_Witness ==
  /\ Returned /\ Status = "failed" /\ idx = 2
  /\ files[FileOf(1)] # initialFiles[FileOf(1)]
  /\ IsSome(initialFiles[OtherFile])
  /\ \A f \in AllFiles \ {FileOf(1)} : files[f] = initialFiles[f]

\* error goes with the status failed, completed_at with the status completed.
Coherent(m) ==
  /\ IsSome(m.error) <=> m.status = "failed"
  /\ IsSome(m.completed_at) <=> m.status = "completed"

\* C38: in the metadata runPipeline returns and in every run.json it has
\* written, error is present exactly when status is failed and
\* completed_at exactly when status is completed.
C38_MetadataCoherent ==
  /\ Returned => Coherent(metadata)
  /\ (pc \notin {"createLogger", "writeInitial"} /\ IsSome(runJson))
       => Coherent(Get(runJson))

\* A run that failed because the retries of a stage were exhausted.
C38_Witness ==
  /\ Returned /\ outcome = "exhausted"
  /\ IsSome(runJson) /\ Get(runJson).status = "failed"
  /\ IsSome(Get(runJson).error)
  /\ ~IsSome(Get(runJson).completed_at)

(***************************************************************************)
(* A further claim about chunking.                                         *)
(***************************************************************************)
\* The chunks whose line range holds line i.
ChunksHolding(i) ==
  { k \in 1..Len(chunker.chunks) :
      LineStart(chunker.chunks[k]) <= i /\ i <= LineEnd(chunker.chunks[k]) }

\* The chunk_id of the chunk with the given index within its file.
IdOfIndex(fileId, index) ==
  <<"chunk-", Sha256Hex(fileId \o <<":", NumText(index)>>, 12)>>

\* C39: for every file, in both formats, the line ranges of the chunks are
\* disjoint and increase in the order of emission, every non-blank line lies
\* in the range of exactly one chunk, and the chunk_ids are made of the
\* indices 0, 1, 2, ... in that order without a gap: a block of blank lines
\* only uses up no index.
C39_RangesAndIndices ==
  chunker.phase = "done" =>
    /\ \A k \in 1..(Len(chunker.chunks) - 1) :
         LineEnd(chunker.chunks[k]) < LineStart(chunker.chunks[k + 1])
    /\ \A i \in 1..Len(chunker.lines) :
         ~OnlyWhitespace(chunker.lines[i]) => Cardinality(ChunksHolding(i)) = 1
    /\ \A k \in 1..Len(chunker.chunks) :
         chunker.chunks[k].chunk_id = IdOfIndex(chunker.fileId, k - 1)

\* A markdown file that starts with a blank line before its first heading
\* and has a second heading: two chunks, the first one from line 2.
C39_Witness ==
  /\ Chunked(".md")
  /\ Len(chunker.lines) >= 4
  /\ chunker.lines[1] = << >>
  /\ IsHeading(chunker.lines[2])
  /\ IsHeading(chunker.lines[4])
  /\ Len(chunker.chunks) = 2
  /\ LineStart(chunker.chunks[1]) = 2
  /\ chunker.chunks[2].chunk_id = IdOfIndex(chunker.fileId, 1)

(***************************************************************************)
(* Part 7: the tags of the ingest output.                                  *)
(*                                                                         *)
(* The ingest stage also returns file_tags, one category per file_id.  A   *)
(* path is matched character by character; file_tags is the list of its   *)
(* entries, one per discovered file, entries of equal file_id being one    *)
(* key.                                                                    *)
(***************************************************************************)
\* FileTagSchema
FileTagValues == {"spec", "slides", "code", "notes", "other"}

\* The categories in the order they are tried, each with its keywords.
TagKeywords ==
  << [tag |-> "spec",
      keywords |-> {<<"s", "p", "e", "c">>, <<"r", "e", "q", "u", "i", "r", "e", "m", "e", "n", "t">>, <<"a", "s", "s", "i", "g", "n", "m", "e", "n", "t">>}],
     [tag |-> "slides",
      keywords |-> {<<"s", "l", "i", "d", "e">>, <<"l", "e", "c", "t", "u", "r", "e">>, <<"p", "r", "e", "s", "e", "n", "t", "a", "t", "i", "o", "n">>}],
     [tag |-> "code",
      keywords |-> {<<"s", "t", "a", "r", "t", "e", "r">>, <<"s", "k", "e", "l", "e", "t", "o", "n">>, <<"t", "e", "m", "p", "l", "a", "t", "e">>}],
     [tag |-> "notes",
      keywords |-> {<<"r", "e", "a", "d", "m", "e">>, <<"n", "o", "t", "e">>}] >>

\* The characters of one token of a path.
CharactersOf(token) ==
  CASE token = "Spec" -> <<"S", "p", "e", "c">>
    [] token = ".md" -> <<".", "m", "d">>
    [] token = ".TXT" -> <<".", "T", "X", "T">>
    [] OTHER -> <<token>>

RECURSIVE PathCharacters(_)
PathCharacters(text) ==
  IF text = << >> THEN << >>
  ELSE CharactersOf(Head(text)) \o PathCharacters(Tail(text))

\* text.includes(word)
Includes(text, word) ==
  \E i \in 0..(Len(text) - Len(word)) : SubSeq(text, i + 1, i + Len(word)) = word

RECURSIVE FirstCategory(_, _)
\* The first category one of whose keywords the characters include.
FirstCategory(characters, categories) ==
  IF categories = << >> THEN "other"
  ELSE IF \E word \in Head(categories).keywords : Includes(characters, word)
  THEN Head(categories).tag
  ELSE FirstCategory(characters, Tail(categories))

\* Faulty variant: the path is matched as it is spelled.
tagFile_CaseSensitive(relPath) ==
  FirstCategory(PathCharacters(relPath), TagKeywords)

\* The category of a file from its root-relative path.  The hash that
\* Disambiguate puts before a path is made of hexadecimal digits and a
\* slash, which complete no keyword, so it is left out here.
tagFile(relPath) ==
  FirstCategory(TextToLowerCase(PathCharacters(relPath)), TagKeywords)

\* The discovered files, each with its path before disambiguation.
DiscoveredWithPaths(inputPaths, order) ==
  LET collected == Collect(inputPaths, order).results
      named == Disambiguate(collected)
  IN  SortByPath([i \in 1..Len(collected) |->
                    [filePath |-> named[i].filePath, fileId |-> named[i].fileId,
                     relPath |-> collected[i].fileId]])

\* The run operation of the ingest stage that also returns file_tags.
IngestTagged(inputPaths, order) ==
  LET returned == IngestRun(inputPaths, order) IN
  IF returned.raised THEN returned
  ELSE LET found == DiscoveredWithPaths(inputPaths, order) IN
       [raised |-> FALSE, chunks |-> returned.chunks,
        file_tags |-> [i \in 1..Len(found) |->
                         [file_id |-> found[i].fileId, tag |-> tagFile(found[i].relPath)]]]

InitTag ==
  /\ RunOff
  /\ chunker = Off
  /\ multi = Off
  /\ query = Off
  /\ store = Off
  /\ generation = Off
  /\ \E roots \in RootLists :
       ingest = [phase |-> "untagged", input_paths |-> roots,
                 outputs |-> << >>, discovered |-> << >>]

\* The stage is executed; discovered is what discoverFiles gave it.
IngestWithTags ==
  /\ ingest.phase = "untagged"
  /\ \E order \in ReaddirOrders :
       LET returned == IngestTagged(ingest.input_paths, order) IN
       ingest' = [ingest EXCEPT
                    !.phase = "tagged",
                    !.outputs = <<returned>>,
                    !.discovered = IF returned.raised THEN << >>
                                   ELSE DiscoveredWithPaths(ingest.input_paths, order)]
  /\ UNCHANGED <<run, chunker, multi, query, store, generation>>

NextTag == IngestWithTags

SpecTag == InitTag /\ [][NextTag]_vars

(***************************************************************************)
(* The claim about the tags.                                               *)
(***************************************************************************)
Tagged == ingest.phase = "tagged" /\ ~ingest.outputs[1].raised

\* The path of a discovered file in lower case, character by character.
LowerPath(entry) ==
  LET characters == PathCharacters(entry.relPath)
      capitals == {"S", "T", "X"}
  IN  [i \in 1..Len(characters) |->
         IF characters[i] \in capitals
           THEN (CASE characters[i] = "S" -> "s" [] characters[i] = "T" -> "t"
                   [] OTHER -> "x")
           ELSE characters[i]]

\* The keywords of a category that occur in the path.
KeywordsIn(entry, tag) ==
  { word \in UNION { TagKeywords[c].keywords :
                       c \in { d \in 1..Len(TagKeywords) : TagKeywords[d].tag = tag } } :
      \E i \in 0..(Len(LowerPath(entry)) - Len(word)) :
        SubSeq(LowerPath(entry), i + 1, i + Len(word)) = word }

\* Every discovered file has one entry of file_tags, with a category of the
\* fixed set that a keyword in its path stands for, or other when its path
\* holds no keyword; entries of one file_id (the same file under the same
\* relative path) are the same.
OneTagPerFile ==
  LET tags == ingest.outputs[1].file_tags
      found == ingest.discovered
  IN  /\ Len(tags) = Len(found)
      /\ \A i \in 1..Len(found) :
           /\ tags[i].file_id = found[i].fileId
           /\ tags[i].tag \in {"spec", "slides", "code", "notes", "other"}
           /\ tags[i].tag = "other" <=>
                \A t \in {"spec", "slides", "code", "notes"} : KeywordsIn(found[i], t) = {}
           /\ tags[i].tag # "other" => KeywordsIn(found[i], tags[i].tag) # {}
           /\ \A j \in 1..Len(found) :
                (found[j].filePath = found[i].filePath /\ found[j].relPath = found[i].relPath)
                  => tags[j] = tags[i]

\* The chunks of the discovered files, file by file.
ChunksOfFound ==
  AllChunks([i \in 1..Len(ingest.discovered) |->
               [filePath |-> ingest.discovered[i].filePath,
                fileId |-> ingest.discovered[i].fileId]])

Undefined == [kind |-> "undefined"]
Null == [kind |-> "null"]
Str(chars) == [kind |-> "string", chars |-> chars]
Arr(items) == [kind |-> "array", items |-> items]
Obj(fields) == [kind |-> "object", fields |-> fields]
EmptyObject == Obj(<< >>)

\* Array.isArray(v)
IsArray(v) == v.kind = "array"
\* v is an object and key in v
HasKey(v, key) == v.kind = "object" /\ key \in DOMAIN v.fields

\* z.string().min(1)
IsNonEmptyString(v) == v.kind = "string" /\ Len(v.chars) >= 1

\* z.array(item).min(1)
IsNonEmptyArrayOf(v, Item(_)) ==
  /\ IsArray(v)
  /\ Len(v.items) >= 1
  /\ \A i \in 1..Len(v.items) : Item(v.items[i])

\* RequirementSchema; type and source_ref are carried by every requirement
\* of the model and left out of it.
RequirementSchema(v) ==
  /\ HasKey(v, "id") /\ IsNonEmptyString(v.fields.id)
  /\ HasKey(v, "text") /\ IsNonEmptyString(v.fields.text)

RequirementsOutputSchema(v) ==
  HasKey(v, "requirements") /\ IsNonEmptyArrayOf(v.fields.requirements, RequirementSchema)

\* ConceptSchema; id and source_refs are carried by every
\* concept of the model and left out of it.
ConceptSchema(v) ==
  /\ HasKey(v, "name") /\ IsNonEmptyString(v.fields.name)
  /\ HasKey(v, "description") /\ IsNonEmptyString(v.fields.description)
  /\ HasKey(v, "requirement_ids")
  /\ IsNonEmptyArrayOf(v.fields.requirement_ids, IsNonEmptyString)

ConceptsOutputSchema(v) ==
  HasKey(v, "concepts") /\ IsNonEmptyArrayOf(v.fields.concepts, ConceptSchema)

\* PrimerOutputSchema and PacketOutputSchema: z.string().min(1)
PrimerOutputSchema(v) == IsNonEmptyString(v)
PacketOutputSchema(v) == IsNonEmptyString(v)

(***************************************************************************)
(* A text of the collaborator, or of a file, is a sequence of lines: the   *)
(* empty string is the empty sequence.  A line is a heading with its level *)
(* and title, a line of words, a code fence with the language written      *)
(* after it, a blank line, or a line of JSON.                              *)
(***************************************************************************)
Heading(level, title) == [kind |-> "heading", level |-> level, title |-> title]
Body(words) == [kind |-> "body", words |-> words]
Fence(lang) == [kind |-> "fence", lang |-> lang]
Blank == [kind |-> "blank"]
JsonLine(v) == [kind |-> "json", json |-> JsonStringify(v)]

\* String.prototype.trim on a text: blank lines at both ends go.
TrimLines(lines) ==
  LET full == {i \in 1..Len(lines) : lines[i].kind # "blank"} IN
  IF full = {} THEN << >>
  ELSE SubSeq(lines, CHOOSE i \in full : \A j \in full : i <= j,
                     CHOOSE i \in full : \A j \in full : j <= i)

\* String.prototype.trim on the characters of one line.
TrimCharacters(chars) ==
  LET full == {i \in 1..Len(chars) : chars[i] \notin Whitespace} IN
  IF full = {} THEN << >>
  ELSE SubSeq(chars, CHOOSE i \in full : \A j \in full : i <= j,
                     CHOOSE i \in full : \A j \in full : j <= i)

\* if (cleaned.startsWith(fence)) cleaned = cleaned.replace(opening, "")
\* .replace(closing, ""): the opening pattern takes the fence with one of
\* the languages it names and the line break, and leaves any other
\* language behind as text; the closing pattern takes a last line that is
\* a bare fence.
StripFences(lines, langs) ==
  IF lines = << >> \/ lines[1].kind # "fence" THEN lines
  ELSE LET opened == IF lines[1].lang \in langs THEN Tail(lines)
                     ELSE <<Body(<<lines[1].lang>>)>> \o Tail(lines)
       IN IF opened # << >> /\ opened[Len(opened)].kind = "fence"
                            /\ opened[Len(opened)].lang = ""
          THEN SubSeq(opened, 1, Len(opened) - 1)
          ELSE opened

\* parseJSON: never raises, null when JSON.parse does
parseJSON(text) ==
  LET cleaned == TrimLines(StripFences(TrimLines(text), {"", "json"})) IN
  IF Len(cleaned) = 1 /\ cleaned[1].kind = "json"
  THEN JsonParse(cleaned[1].json) ELSE Null

RETRIEVAL_LIMIT == 30

\* new Error(message)
ErrorOf(message) ==
  [isError |-> TRUE, message |-> <<message>>, text |-> <<"Error: ", message>>]

\* The calls a stage makes on its collaborators.
RetrieveCall(q, bias) ==
  [fn |-> "retrieve", query |-> q, limit |-> RETRIEVAL_LIMIT, bias |-> bias]
RetrieveByTagCall(tag) ==
  [fn |-> "retrieveByTag", tag |-> tag, limit |-> RETRIEVAL_LIMIT]
LLMCall(chunks) == [fn |-> "callLLM", chunks |-> chunks]

\* How far a stage gets before it awaits the collaborator: it has raised,
\* or it has called callLLM with the chunks it retrieved.
RaisedBefore(made, message) ==
  [raised |-> TRUE, error |-> ErrorOf(message), calls |-> made]
Awaiting(made, chunks) ==
  [raised |-> FALSE, error |-> ErrorOf("none"), calls |-> Append(made, LLMCall(chunks))]

\* What a stage does with the collaborator's answer: raises or returns.
RaisedAfter(error) == [raised |-> TRUE, error |-> error, value |-> Undefined]
ReturnedValue(value) == [raised |-> FALSE, error |-> ErrorOf("none"), value |-> value]

RECURSIVE MergeById(_, _, _)
\* extract-requirements.ts lines 121-129: the first chunk of each chunk_id
MergeById(seen, chunks, rest) ==
  IF rest = << >> THEN chunks
  ELSE IF Head(rest).chunk_id \in seen THEN MergeById(seen, chunks, Tail(rest))
  ELSE MergeById(seen \cup {Head(rest).chunk_id}, Append(chunks, Head(rest)), Tail(rest))

\* extract-requirements.ts lines 96-142
extractRequirementsRetrieval(input, storage) ==
  IF storage = None
  THEN RaisedBefore(<< >>, "extract_requirements stage requires storage in RunContext.")
  ELSE
    LET specChunks == Get(storage).tagged
        dynamicQuery ==
          buildDynamicQuery([i \in 1..Len(specChunks) |-> specChunks[i].text])
        supplementChunks ==
          IF dynamicQuery # << >> THEN Get(storage).matching ELSE << >>
        made ==
          <<RetrieveByTagCall("spec")>>
            \o (IF dynamicQuery # << >> THEN <<RetrieveCall(dynamicQuery, "spec")>>
                ELSE << >>)
        chunks == MergeById({}, << >>, specChunks \o supplementChunks)
    IN IF chunks = << >>
       THEN RaisedBefore(made, "No chunks retrieved for requirement extraction.")
       ELSE Awaiting(made, chunks)

\* extract-requirements.ts lines 144-157
extractRequirementsResult(input, text) ==
  IF parseJSON(text).kind = "null" THEN ReturnedValue(EmptyObject)
  ELSE ReturnedValue(parseJSON(text))

\* Faulty variant: no fallback to the tag lookup.
RetrieveWithFallback_NoFallback(storage, dynamicQuery, message) ==
  LET chunks == IF dynamicQuery # << >> THEN Get(storage).matching ELSE << >>
      made == IF dynamicQuery # << >> THEN <<RetrieveCall(dynamicQuery, "slides")>>
               ELSE << >>
  IN IF chunks = << >> THEN RaisedBefore(made, message) ELSE Awaiting(made, chunks)

\* map-concepts.ts lines 162-190, and the same lines of explain-concepts:
\* keyword retrieval when there is a query, the tag lookup when that gave
\* nothing, a raise when the tag lookup gave nothing either.
RetrieveWithFallback(storage, dynamicQuery, message) ==
  LET first == IF dynamicQuery # << >> THEN Get(storage).matching ELSE << >>
      chunks == IF first = << >> THEN Get(storage).tagged ELSE first
      made ==
        (IF dynamicQuery # << >> THEN <<RetrieveCall(dynamicQuery, "slides")>> ELSE << >>)
          \o (IF first = << >> THEN <<RetrieveByTagCall("slides")>> ELSE << >>)
  IN IF chunks = << >> THEN RaisedBefore(made, message) ELSE Awaiting(made, chunks)

\* requirements.requirements.map((r) => r.text)
RequirementTexts(input) ==
  [i \in 1..Len(input.fields.requirements.items) |->
     input.fields.requirements.items[i].fields.text.chars]

\* new Set(requirements.requirements.map((r) => r.id))
RequirementIds(input) ==
  { input.fields.requirements.items[i].fields.id.chars :
      i \in 1..Len(input.fields.requirements.items) }

\* map-concepts.ts lines 134-190
mapConceptsRetrieval(input, storage) ==
  IF storage = None
  THEN RaisedBefore(<< >>, "map_concepts stage requires storage in RunContext.")
  ELSE IF ~RequirementsOutputSchema(input)
  THEN RaisedBefore(<< >>, "map_concepts stage requires valid RequirementsOutput as input.")
  ELSE RetrieveWithFallback(storage, buildDynamicQuery(RequirementTexts(input)),
                            "No chunks retrieved for concept mapping.")

\* concept.requirement_ids.filter((id) => validIds.has(id))
KeptIds(ids, validIds) ==
  SelectSeq(ids, LAMBDA id : id.kind = "string" /\ id.chars \in validIds)

\* Faulty variant: a concept keeps the ids it came with.
FilterConcept_KeepsAll(concept, validIds) == concept

\* lines 116-123, for a concept other than null or undefined: unchanged
\* when it has no array of ids, null when no id is kept
FilterConcept(concept, validIds) ==
  IF ~HasKey(concept, "requirement_ids") \/ ~IsArray(concept.fields.requirement_ids)
  THEN concept
  ELSE IF KeptIds(concept.fields.requirement_ids.items, validIds) = << >> THEN Null
  ELSE Obj([concept.fields EXCEPT
              !.requirement_ids = Arr(KeptIds(concept.fields.requirement_ids.items, validIds))])

\* map-concepts.ts lines 101-128.  Reading a property of null raises a
\* TypeError (line 117).
filterHallucinatedRequirementIds(parsed, validIds) ==
  IF ~HasKey(parsed, "concepts") \/ ~IsArray(parsed.fields.concepts)
  THEN ReturnedValue(parsed)
  ELSE
    LET concepts == parsed.fields.concepts.items
        mapped == [i \in 1..Len(concepts) |-> FilterConcept(concepts[i], validIds)]
        filtered == SelectSeq(mapped, LAMBDA c : c.kind # "null")
    IN IF \E i \in 1..Len(concepts) : concepts[i].kind \in {"null", "undefined"}
       THEN RaisedAfter([isError |-> TRUE,
                         message |-> <<"null is not an object (evaluating 'concept.requirement_ids')">>,
                         text |-> <<"TypeError: ", "null is not an object (evaluating 'concept.requirement_ids')">>])
       ELSE IF filtered = << >> THEN ReturnedValue(EmptyObject)
       ELSE ReturnedValue(Obj([concepts |-> Arr(filtered)]))

\* map-concepts.ts lines 192-200
mapConceptsResult(input, text) ==
  IF parseJSON(text).kind = "null" THEN ReturnedValue(EmptyObject)
  ELSE filterHallucinatedRequirementIds(parseJSON(text), RequirementIds(input))

\* The nine headings a packet needs (generate-packet.ts lines 57-67), each
\* a title of one word of the model, and the lower-case spelling of each.
REQUIRED_HEADINGS ==
  <<"What You Are Building", "Acceptance Criteria", "Requirements Checklist",
    "Required Concepts", "System / Component Breakdown", "Execution Plan",
    "Common Pitfalls and Edge Cases", "Validation and Testing Plan",
    "Open Questions">>

LowerCaseHeadings ==
  <<"what you are building", "acceptance criteria", "requirements checklist",
    "required concepts", "system / component breakdown", "execution plan",
    "common pitfalls and edge cases", "validation and testing plan",
    "open questions">>

\* String.prototype.toLowerCase on a title: letter by letter, and a
\* required heading written as one word becomes its lower-case spelling.
TitleToLowerCase(title) ==
  [i \in 1..Len(title) |->
     IF \E k \in 1..Len(REQUIRED_HEADINGS) : REQUIRED_HEADINGS[k] = title[i]
     THEN LowerCaseHeadings[CHOOSE k \in 1..Len(REQUIRED_HEADINGS) :
                              REQUIRED_HEADINGS[k] = title[i]]
     ELSE TextToLowerCase(<<title[i]>>)[1]]

\* The titles, trimmed and in lower case, of the headings of these levels.
HeadingsOf(text, levels) ==
  { TitleToLowerCase(TrimCharacters(text[i].title)) :
      i \in { j \in 1..Len(text) : text[j].kind = "heading" /\ text[j].level \in levels } }

\* Faulty variant: a primer short of a heading is returned as it is.
validateConceptHeadings_Lenient(text, conceptNames) == text

\* explain-concepts.ts lines 379-401
validateConceptHeadings(text, conceptNames) ==
  IF \E i \in 1..Len(conceptNames) :
       TitleToLowerCase(conceptNames[i]) \notin HeadingsOf(text, {2})
  THEN << >> ELSE text

\* concepts.concepts.flatMap((c) => [c.name, c.description])
ConceptTexts(input) ==
  [i \in 1..(2 * Len(input.fields.concepts.items)) |->
     IF i % 2 = 1 THEN input.fields.concepts.items[(i + 1) \div 2].fields.name.chars
     ELSE input.fields.concepts.items[i \div 2].fields.description.chars]

\* concepts.concepts.map((c) => c.name)
ConceptNames(input) ==
  [i \in 1..Len(input.fields.concepts.items) |->
     input.fields.concepts.items[i].fields.name.chars]

\* explain-concepts.ts lines 407-459
explainConceptsRetrieval(input, storage) ==
  IF storage = None
  THEN RaisedBefore(<< >>, "explain_concepts stage requires storage in RunContext.")
  ELSE IF ~ConceptsOutputSchema(input)
  THEN RaisedBefore(<< >>, "explain_concepts stage requires valid ConceptsOutput as input.")
  ELSE RetrieveWithFallback(storage, buildDynamicQuery(ConceptTexts(input)),
                            "No chunks retrieved for concept explanation.")

\* explain-concepts.ts lines 461-472
explainConceptsResult(input, text) ==
  ReturnedValue(Str(validateConceptHeadings(StripFences(TrimLines(text), {"", "markdown", "md"}),
                                       ConceptNames(input))))

\* The words the patterns of lines 170 and 175 find, and a word with the
\* letter z, which the pattern of line 180 stops at.
TbdWords == {"TBD", "tbd"}
ReqWords == {"REQ-001"}
ZWords == {"zero"}

WordsOfLine(line) ==
  CASE line.kind = "body" -> { line.words[i] : i \in 1..Len(line.words) }
    [] line.kind = "heading" -> { line.title[i] : i \in 1..Len(line.title) }
    [] line.kind = "fence" -> { line.lang }
    [] OTHER -> {}

\* the heading of the section of acceptance criteria the pattern finds
IsAcceptanceHeading(line) ==
  /\ line.kind = "heading" /\ line.level \in {1, 2}
  /\ TitleToLowerCase(TrimCharacters(line.title)) = <<"acceptance criteria">>

\* a line the section ends before: the next heading of level 1 or 2
EndsSection(line) == line.kind = "heading" /\ line.level \in {1, 2}

\* Lines 180-184: the section has an end (a heading or a letter z after
\* it) and something other than white space before that end.
AcceptanceCriteriaFilled(text) ==
  LET starts == {i \in 1..Len(text) : IsAcceptanceHeading(text[i])} IN
  /\ starts # {}
  /\ LET start == CHOOSE i \in starts : \A j \in starts : i <= j
         ends == {i \in (start + 1)..Len(text) :
                    EndsSection(text[i]) \/ WordsOfLine(text[i]) \cap ZWords # {}}
     IN /\ ends # {}
        /\ LET end == CHOOSE i \in ends : \A j \in ends : i <= j
           IN \/ \E i \in (start + 1)..(end - 1) : text[i].kind # "blank"
              \/ /\ ~EndsSection(text[end])
                 /\ text[end].words[1] \notin ZWords

\* Faulty variant: a packet with a placeholder is returned as it is.
validatePacketInvariants_AllowsTBD(text) ==
  IF \E k \in 1..Len(REQUIRED_HEADINGS) :
       <<LowerCaseHeadings[k]>> \notin HeadingsOf(text, {1, 2})
  THEN << >>
  ELSE IF \A i \in 1..Len(text) : WordsOfLine(text[i]) \cap ReqWords = {} THEN << >>
  ELSE IF ~AcceptanceCriteriaFilled(text) THEN << >>
  ELSE text

\* generate-packet.ts lines 153-189
validatePacketInvariants(text) ==
  IF \E k \in 1..Len(REQUIRED_HEADINGS) :
       <<LowerCaseHeadings[k]>> \notin HeadingsOf(text, {1, 2})
  THEN << >>
  ELSE IF \E i \in 1..Len(text) : WordsOfLine(text[i]) \cap TbdWords # {} THEN << >>
  ELSE IF \A i \in 1..Len(text) : WordsOfLine(text[i]) \cap ReqWords = {} THEN << >>
  ELSE IF ~AcceptanceCriteriaFilled(text) THEN << >>
  ELSE text

\* JSON.parse(raw) of a file: a SyntaxError when the file is not JSON
IsJsonFile(file) == file.fmt = "json"

\* generate-packet.ts lines 72-120: the error readPriorOutputs raises, if any
readPriorOutputs(dir) ==
  IF dir.requirements = None
  THEN Some(ErrorOf("generate_packet stage requires requirements.json in output directory."))
  ELSE IF dir.concepts = None
  THEN Some(ErrorOf("generate_packet stage requires concepts.json in output directory."))
  ELSE IF ~IsJsonFile(Get(dir.requirements))
  THEN Some([isError |-> TRUE, message |-> <<"JSON Parse error">>,
             text |-> <<"SyntaxError: ", "JSON Parse error">>])
  ELSE IF ~RequirementsOutputSchema(JsonParse(Get(dir.requirements)))
  THEN Some(ErrorOf("generate_packet stage found invalid requirements.json."))
  ELSE IF ~IsJsonFile(Get(dir.concepts))
  THEN Some([isError |-> TRUE, message |-> <<"JSON Parse error">>,
             text |-> <<"SyntaxError: ", "JSON Parse error">>])
  ELSE IF ~ConceptsOutputSchema(JsonParse(Get(dir.concepts)))
  THEN Some(ErrorOf("generate_packet stage found invalid concepts.json."))
  ELSE None

\* Faulty variant: the prior outputs are not looked at.
generatePacketRetrieval_Unchecked(input, dir) ==
  IF input.kind # "string" \/ TrimLines(input.chars) = << >>
  THEN RaisedBefore(<< >>, "generate_packet stage requires a non-empty primer string as input.")
  ELSE Awaiting(<< >>, << >>)

\* generate-packet.ts lines 193-207: callLLM is given no chunks here, but
\* the requirements, the concepts and the primer
generatePacketRetrieval(input, dir) ==
  IF input.kind # "string" \/ TrimLines(input.chars) = << >>
  THEN RaisedBefore(<< >>, "generate_packet stage requires a non-empty primer string as input.")
  ELSE IF readPriorOutputs(dir) # None
  THEN [raised |-> TRUE, error |-> Get(readPriorOutputs(dir)), calls |-> << >>]
  ELSE Awaiting(<< >>, << >>)

\* generate-packet.ts lines 209-218
generatePacketResult(input, text) ==
  ReturnedValue(Str(validatePacketInvariants(StripFences(TrimLines(text), {"", "markdown", "md"}))))

\* The four stages, with the file each declares (the stage objects at the
\* end of each source file).
GenerationStages ==
  { [name |-> "extract_requirements",
     outputFilename |-> [base |-> "requirements", ext |-> ".json"]],
    [name |-> "map_concepts", outputFilename |-> [base |-> "concepts", ext |-> ".json"]],
    [name |-> "explain_concepts", outputFilename |-> [base |-> "primer", ext |-> ".md"]],
    [name |-> "generate_packet", outputFilename |-> [base |-> "packet", ext |-> ".md"]] }

\* stage.outputSchema.safeParse(output).success
OutputAccepted(stage, v) ==
  CASE stage.name = "extract_requirements" -> RequirementsOutputSchema(v)
    [] stage.name = "map_concepts" -> ConceptsOutputSchema(v)
    [] stage.name = "explain_concepts" -> PrimerOutputSchema(v)
    [] OTHER -> PacketOutputSchema(v)

\* stage.run(currentInput, ctx) up to the await of callLLM
RunUntilAwait(g) ==
  CASE g.stage.name = "extract_requirements" -> extractRequirementsRetrieval(g.input, g.storage)
    [] g.stage.name = "map_concepts" -> mapConceptsRetrieval(g.input, g.storage)
    [] g.stage.name = "explain_concepts" -> explainConceptsRetrieval(g.input, g.storage)
    [] OTHER -> generatePacketRetrieval(g.input, g.files)

\* stage.run(currentInput, ctx) from the answer of callLLM on
RunFromAnswer(g, text) ==
  CASE g.stage.name = "extract_requirements" -> extractRequirementsResult(g.input, text)
    [] g.stage.name = "map_concepts" -> mapConceptsResult(g.input, text)
    [] g.stage.name = "explain_concepts" -> explainConceptsResult(g.input, text)
    [] OTHER -> generatePacketResult(g.input, text)

\* What callLLM raises when the service fails.
CollaboratorFault == ErrorOf("LLM request failed")

\* The longest list of requirement ids a collaborator gives a concept.
MaxIds == 2

Tee == <<"T", "e", "e">>
The == <<"t", "h", "e">>
X1 == <<"x", "1">>

\* The chunks an index answers with: the text of the first gives a query
\* term, the text of the second is a stop word.
Chunk1 == [chunk_id |-> "c1", text |-> Tee]
Chunk2 == [chunk_id |-> "c2", text |-> The]

Storages ==
  {None} \cup
  { Some([matching |-> m, tagged |-> t]) :
      m \in {<< >>, <<Chunk1>>, <<Chunk1, Chunk2>>},
      t \in {<< >>, <<Chunk2>>, <<Chunk1, Chunk2>>} }

Requirement(id, text) == Obj([id |-> Str(<<id>>), text |-> Str(text)])
RequirementsOf(list) == Obj([requirements |-> Arr(list)])
Concept(name, ids) ==
  Obj([name |-> Str(name), description |-> Str(The), requirement_ids |-> ids])
ConceptsOf(list) == Obj([concepts |-> list])

\* Requirements with a text that gives a query term, and requirements whose
\* texts give none.
OneRequirement == RequirementsOf(<<Requirement("REQ-001", Tee)>>)
TwoRequirements ==
  RequirementsOf(<<Requirement("REQ-001", The), Requirement("REQ-002", X1)>>)

KnownIds == {"REQ-001", "REQ-002"}
UnknownIds == {"REQ-009"}

IdLists ==
  UNION { [1..n -> {Str(<<id>>) : id \in KnownIds \cup UnknownIds}] : n \in 0..MaxIds }

\* What the collaborator can put in the place of a concept: a concept with
\* a list of ids, a concept whose ids are not a list, a string, or null.
ConceptsNamed(name) ==
  { Concept(name, Arr(ids)) : ids \in IdLists }
    \cup { Concept(name, Str(<<"REQ-001">>)), Str(name), Null }

ConceptLists ==
  {<< >>} \cup { <<a>> : a \in ConceptsNamed(Tee) }
          \cup { <<a, b>> : a \in ConceptsNamed(Tee), b \in ConceptsNamed(X1) }

\* Concepts whose name gives a query term, and a concept whose name and
\* description give none.
TeeConcepts == ConceptsOf(Arr(<<Concept(Tee, Arr(<<Str(<<"REQ-001">>)>>))>>))
X1Concepts == ConceptsOf(Arr(<<Concept(X1, Arr(<<Str(<<"REQ-001">>)>>))>>))

InvalidInputs == {Undefined, EmptyObject, Str(<< >>), Str(<<Blank>>)}

APrimer == Str(<<Heading(2, Tee), Body(<<"text">>)>>)

\* What the output directory holds of a prior output: nothing, the output,
\* JSON of another shape, or a file that is not JSON.
PriorFiles(v) ==
  {None, Some(JsonStringify(v)), Some(JsonStringify(EmptyObject)), Some(Literal(Str(<<"not json">>)))}

NoFiles == [requirements |-> None, concepts |-> None, primer |-> None, packet |-> None]

\* The input, the index and the output directory a stage can be run with.
Environments(stage) ==
  CASE stage.name = "extract_requirements" ->
         { [input |-> Undefined, storage |-> s, files |-> NoFiles] : s \in Storages }
    [] stage.name = "map_concepts" ->
         { [input |-> i, storage |-> s, files |-> NoFiles] :
             i \in {OneRequirement, TwoRequirements, RequirementsOf(<< >>)} \cup InvalidInputs,
             s \in Storages }
    [] stage.name = "explain_concepts" ->
         { [input |-> i, storage |-> s, files |-> NoFiles] :
             i \in {TeeConcepts, X1Concepts, ConceptsOf(Arr(<< >>))} \cup InvalidInputs,
             s \in Storages }
    [] OTHER ->
         { [input |-> i, storage |-> None,
            files |-> [requirements |-> r, concepts |-> c, primer |-> None, packet |-> None]] :
             i \in {APrimer} \cup InvalidInputs,
             r \in PriorFiles(OneRequirement), c \in PriorFiles(TeeConcepts) }

\* A packet: the sections in this order, each with the lines given for it.
RECURSIVE Sections(_, _, _)
Sections(order, level, bodies) ==
  IF order = << >> THEN << >>
  ELSE <<Heading(level, <<REQUIRED_HEADINGS[Head(order)]>>)>> \o bodies[Head(order)]
         \o Sections(Tail(order), level, bodies)

InOrder == <<1, 2, 3, 4, 5, 6, 7, 8, 9>>
CriteriaLast == <<1, 3, 4, 5, 6, 7, 8, 9, 2>>
Filled == [k \in 1..9 |-> <<Body(<<"REQ-001", "text">>), Blank>>]

PacketTexts ==
  { Sections(InOrder, 2, Filled),
    <<Fence("markdown")>> \o Sections(InOrder, 1, Filled) \o <<Fence("")>>,
    <<Heading(1, <<" ", "acceptance criteria", " ">>), Body(<<"text">>)>>
      \o Sections(<<1, 3, 4, 5, 6, 7, 8, 9>>, 2, Filled),
    Sections(<<1, 2, 3, 4, 5, 6, 7, 8>>, 2, Filled),
    Sections(InOrder, 2, [Filled EXCEPT ![5] = <<Body(<<"text", "TBD">>)>>]),
    Sections(InOrder, 2, [k \in 1..9 |-> <<Body(<<"text">>)>>]),
    Sections(InOrder, 2, [Filled EXCEPT ![2] = <<Blank>>]),
    Sections(InOrder, 2, [Filled EXCEPT ![2] = <<Body(<<"zero", "text">>)>>]),
    Sections(CriteriaLast, 2, Filled),
    Sections(CriteriaLast, 2, [Filled EXCEPT ![2] = <<Body(<<"text", "zero">>)>>]),
    << >> }

\* The texts the collaborator can answer a stage with.
Responses(stage) ==
  CASE stage.name = "extract_requirements" ->
         { <<JsonLine(OneRequirement)>>,
           <<Blank, Fence("json"), JsonLine(TwoRequirements), Fence(""), Blank>>,
           <<Fence("markdown"), JsonLine(OneRequirement), Fence("")>>,
           <<JsonLine(RequirementsOf(<< >>))>>,
           <<JsonLine(EmptyObject)>>,
           <<JsonLine(Null)>>,
           <<Body(<<"text">>), JsonLine(OneRequirement)>>,
           << >> }
    [] stage.name = "map_concepts" ->
         { <<JsonLine(ConceptsOf(Arr(list)))>> : list \in ConceptLists }
           \cup { <<JsonLine(ConceptsOf(Str(Tee)))>>, <<JsonLine(EmptyObject)>>,
                  <<JsonLine(Null)>>, <<Body(<<"text">>)>>,
                  <<Fence("json"), JsonLine(TeeConcepts), Fence("")>> }
    [] stage.name = "explain_concepts" ->
         { <<Heading(2, Tee), Body(<<"text">>)>>,
           <<Blank, Heading(2, <<"t", "E", "E", " ">>), Body(<<"text">>), Blank>>,
           <<Fence("md"), Heading(2, X1), Body(<<"text">>), Fence("")>>,
           <<Heading(2, X1), Heading(2, Tee)>>,
           <<Heading(3, Tee), Heading(1, X1), Body(<<"text">>)>>,
           <<Body(<<"text">>)>>,
           << >> }
    [] OTHER -> PacketTexts

InitGeneration ==
  /\ RunOff
  /\ chunker = Off
  /\ ingest = Off
  /\ multi = Off
  /\ query = Off
  /\ store = Off
  /\ \E stage \in GenerationStages :
     \E e \in Environments(stage) :
       generation = [phase |-> "attempt", stage |-> stage, input |-> e.input,
                     storage |-> e.storage, files |-> e.files, attempts |-> 0,
                     calls |-> << >>, answer |-> None, faulted |-> FALSE,
                     thrown |-> None, output |-> Undefined,
                     status |-> "running", error |-> None]

\* orchestrator.ts lines 74-79 and the stage up to its await: attempts++,
\* stage.run is called and either raises or calls callLLM
InvokeGeneration ==
  /\ generation.phase = "attempt"
  /\ generation' =
       [generation EXCEPT
          !.attempts = @ + 1,
          !.calls = RunUntilAwait(generation).calls,
          !.answer = None,
          !.output = Undefined,
          !.thrown = IF RunUntilAwait(generation).raised
                     THEN Some(RunUntilAwait(generation).error) ELSE None,
          !.phase = IF RunUntilAwait(generation).raised THEN "caught" ELSE "awaiting"]
  /\ UNCHANGED <<run, chunker, ingest, multi, query, store>>

\* callLLM raises: nothing in the stage catches it
CollaboratorFaults ==
  /\ generation.phase = "awaiting"
  /\ generation' = [generation EXCEPT !.faulted = TRUE,
                                      !.thrown = Some(CollaboratorFault),
                                      !.phase = "caught"]
  /\ UNCHANGED <<run, chunker, ingest, multi, query, store>>

\* callLLM answers and the stage runs to its end
CollaboratorAnswers ==
  /\ generation.phase = "awaiting"
  /\ \E text \in Responses(generation.stage) :
       generation' =
         [generation EXCEPT
            !.answer = Some(text),
            !.output = RunFromAnswer(generation, text).value,
            !.thrown = IF RunFromAnswer(generation, text).raised
                       THEN Some(RunFromAnswer(generation, text).error) ELSE None,
            !.phase = IF RunFromAnswer(generation, text).raised
                      THEN "caught" ELSE "validate"]
  /\ UNCHANGED <<run, chunker, ingest, multi, query, store>>

\* Faulty variant: a raise is swallowed and the stage invoked again.
FailGeneration_Retry ==
  /\ generation.phase = "caught"
  /\ generation' = [generation EXCEPT !.phase = "attempt"]
  /\ UNCHANGED <<run, chunker, ingest, multi, query, store>>

\* orchestrator.ts lines 80-88: the catch clause
FailGeneration ==
  /\ generation.phase = "caught"
  /\ generation' = [generation EXCEPT !.status = "failed",
                                      !.error = Some(MessageOf(Get(generation.thrown))),
                                      !.phase = "returned"]
  /\ UNCHANGED <<run, chunker, ingest, multi, query, store>>

\* orchestrator.ts lines 90-95 and 116-145: the candidate passes the
\* contract, the artifact is written and the run completes
AcceptOutput ==
  /\ generation.phase = "validate"
  /\ OutputAccepted(generation.stage, generation.output)
  /\ generation' =
       [generation EXCEPT
          !.files = [@ EXCEPT ![generation.stage.outputFilename.base] =
                       Some(OutputContent(generation.stage, generation.output))],
          !.status = "completed",
          !.phase = "returned"]
  /\ UNCHANGED <<run, chunker, ingest, multi, query, store>>

\* orchestrator.ts lines 97-113: the candidate fails and a retry remains
RetryGeneration ==
  /\ generation.phase = "validate"
  /\ ~OutputAccepted(generation.stage, generation.output)
  /\ ~RetriesExhausted(generation.attempts)
  /\ generation' = [generation EXCEPT !.phase = "attempt"]
  /\ UNCHANGED <<run, chunker, ingest, multi, query, store>>

\* orchestrator.ts lines 97-108: the candidate fails and no retry remains
ExhaustGeneration ==
  /\ generation.phase = "validate"
  /\ ~OutputAccepted(generation.stage, generation.output)
  /\ RetriesExhausted(generation.attempts)
  /\ generation' = [generation EXCEPT !.status = "failed",
                                      !.error = Some(<<"validation issues">>),
                                      !.phase = "returned"]
  /\ UNCHANGED <<run, chunker, ingest, multi, query, store>>

NextGeneration ==
  \/ InvokeGeneration
  \/ CollaboratorFaults
  \/ CollaboratorAnswers
  \/ FailGeneration
  \/ AcceptOutput
  \/ RetryGeneration
  \/ ExhaustGeneration

SpecGeneration == InitGeneration /\ [][NextGeneration]_vars

(***************************************************************************)
(* Claims about the generation stages.                                     *)
(***************************************************************************)

StageIs(names) == generation.phase # "off" /\ generation.stage.name \in names

\* The stage has been invoked and its latest invocation got as far as
\* retrieval: it was given an index and an input of the shape it needs.
ReachedRetrieval ==
  /\ generation.attempts >= 1
  /\ generation.storage # None
  /\ \/ StageIs({"map_concepts"}) /\ RequirementsOutputSchema(generation.input)
     \/ StageIs({"explain_concepts"}) /\ ConceptsOutputSchema(generation.input)

\* The calls of a kind the latest invocation made, by position.
CallsOf(fn) == { i \in 1..Len(generation.calls) : generation.calls[i].fn = fn }

\* The query the stage builds from the input it was given.
BuiltQuery ==
  IF StageIs({"map_concepts"}) THEN buildDynamicQuery(RequirementTexts(generation.input))
  ELSE buildDynamicQuery(ConceptTexts(generation.input))

\* Keyword retrieval was skipped or gave nothing.
NoKeywordChunks ==
  CallsOf("retrieve") = {} \/ Get(generation.storage).matching = << >>

\* The latest invocation raised before the collaborator was called.
RaisedInRetrieval ==
  generation.thrown # None /\ generation.answer = None /\ ~generation.faulted

ParsedAnswer == parseJSON(Get(generation.answer))

\* The collaborator has answered map_concepts with JSON holding a list of
\* concepts, none of them null, and the stage has returned.
ConceptsAnswered ==
  /\ StageIs({"map_concepts"})
  /\ generation.phase \in {"validate", "returned"}
  /\ generation.answer # None /\ generation.thrown = None
  /\ HasKey(ParsedAnswer, "concepts") /\ IsArray(ParsedAnswer.fields.concepts)

\* The ids of a concept that has a list of ids.
IdsOf(concept) ==
  { concept.fields.requirement_ids.items[j].chars :
      j \in 1..Len(concept.fields.requirement_ids.items) }

HasIdList(concept) ==
  HasKey(concept, "requirement_ids") /\ IsArray(concept.fields.requirement_ids)

\* The concepts of a value that has a list of concepts, else none.
ConceptsIn(v) ==
  IF HasKey(v, "concepts") /\ IsArray(v.fields.concepts)
  THEN { v.fields.concepts.items[i] : i \in 1..Len(v.fields.concepts.items) }
  ELSE {}

\* Every concept of the answer has a list of ids, none of them an id of
\* the requirements the stage was given.
AllHallucinated ==
  \A c \in ConceptsIn(ParsedAnswer) : HasIdList(c) /\ IdsOf(c) \cap RequirementIds(generation.input) = {}

IsEmptyObject(v) == v.kind = "object" /\ DOMAIN v.fields = {}

\* C33 (state part): when a run of map_concepts is completed, every
\* requirement id of every concept in the concepts.json it wrote is an id
\* of the requirements the stage was given; a concept of the answer whose
\* ids are all unknown is not among the concepts the stage returns; when
\* every concept of the answer is dropped the stage returns {}, which the
\* contract rejects.
C33_Filtered ==
  /\ (StageIs({"map_concepts"}) /\ generation.status = "completed") =>
       /\ generation.files.concepts # None
       /\ \A c \in ConceptsIn(JsonParse(Get(generation.files.concepts))) :
            IdsOf(c) \subseteq RequirementIds(generation.input)
  /\ ConceptsAnswered =>
       /\ \A c \in ConceptsIn(ParsedAnswer) :
            (HasIdList(c) /\ IdsOf(c) \cap RequirementIds(generation.input) = {}) =>
               \A kept \in ConceptsIn(generation.output) :
                  HasKey(kept, "name") => kept.fields.name # c.fields.name
       /\ AllHallucinated =>
            /\ IsEmptyObject(generation.output)
            /\ ~OutputAccepted(generation.stage, generation.output)

\* C33 (step part): a {} returned by map_concepts is answered by another
\* invocation of the stage while a retry remains, and never by writing
\* concepts.json.
C33_EmptyRetried ==
  [][(/\ StageIs({"map_concepts"})
      /\ generation.phase = "validate"
      /\ IsEmptyObject(generation.output)) =>
       /\ generation'.files = generation.files
       /\ IF RetriesExhausted(generation.attempts)
          THEN generation'.status = "failed"
          ELSE generation'.phase = "attempt" /\ generation'.status = "running"]_vars

\* C33: sanitization before validation in map_concepts.
C33_Sanitization == []C33_Filtered /\ C33_EmptyRetried

\* A run of map_concepts completed on its second invocation, after a
\* retry: the answer held a concept with a known and an unknown id, and
\* concepts.json holds no unknown id.
C33_Witness ==
  /\ ConceptsAnswered
  /\ generation.status = "completed"
  /\ generation.attempts = 2
  /\ \E c \in ConceptsIn(ParsedAnswer) :
       /\ HasIdList(c)
       /\ IdsOf(c) \cap {<<id>> : id \in UnknownIds} # {}
       /\ IdsOf(c) \cap {<<id>> : id \in KnownIds} # {}
  /\ \A c \in ConceptsIn(JsonParse(Get(generation.files.concepts))) :
       IdsOf(c) \cap {<<id>> : id \in UnknownIds} = {}

AnyStage == StageIs({"extract_requirements", "map_concepts", "explain_concepts", "generate_packet"})

\* The candidates that ask for a retry: {} and the empty string.
Degenerate(v) == IsEmptyObject(v) \/ (v.kind = "string" /\ v.chars = << >>)

\* The stage was given an input of the shape it needs.
InputValid ==
  CASE StageIs({"extract_requirements"}) -> TRUE
    [] StageIs({"map_concepts"}) -> RequirementsOutputSchema(generation.input)
    [] StageIs({"explain_concepts"}) -> ConceptsOutputSchema(generation.input)
    [] OTHER -> generation.input.kind = "string" /\ TrimLines(generation.input.chars) # << >>

\* The stage needs a retrieval index and was given none.
IndexMissing == ~StageIs({"generate_packet"}) /\ generation.storage = None

\* Retrieval gives the stage no chunk at all.
NoChunks ==
  /\ ~StageIs({"generate_packet"}) /\ generation.storage # None
  /\ Get(generation.storage).tagged = << >>
  /\ StageIs({"extract_requirements"}) \/ NoKeywordChunks

\* generate_packet does not find a valid requirements.json and concepts.json.
PriorOutputsUnusable ==
  /\ StageIs({"generate_packet"})
  /\ \/ generation.files.requirements = None
     \/ generation.files.concepts = None
     \/ Get(generation.files.requirements).fmt # "json"
     \/ Get(generation.files.concepts).fmt # "json"
     \/ ~RequirementsOutputSchema(JsonParse(Get(generation.files.requirements)))
     \/ ~ConceptsOutputSchema(JsonParse(Get(generation.files.concepts)))

\* What the stage is run with is at fault, whatever the collaborator says.
PreconditionFault ==
  IndexMissing \/ ~InputValid \/ NoChunks \/ PriorOutputsUnusable

\* The answer of the collaborator does not give a usable candidate: it is
\* not JSON, or the primer lacks the heading of a concept, or the packet
\* lacks a required heading or holds a placeholder.
AnswerUnusable ==
  LET text == Get(generation.answer) IN
  CASE StageIs({"extract_requirements", "map_concepts"}) -> parseJSON(text).kind = "null"
    [] StageIs({"explain_concepts"}) ->
         \E i \in 1..Len(ConceptNames(generation.input)) :
           \A j \in 1..Len(text) :
             text[j].kind = "heading" =>
               \/ text[j].level # 2
               \/ TitleToLowerCase(TrimCharacters(text[j].title))
                    # TitleToLowerCase(ConceptNames(generation.input)[i])
    [] OTHER ->
         \/ \E k \in 1..Len(REQUIRED_HEADINGS) :
              \A j \in 1..Len(text) :
                text[j].kind = "heading" =>
                  TitleToLowerCase(TrimCharacters(text[j].title)) # <<LowerCaseHeadings[k]>>
         \/ \E j \in 1..Len(text) : WordsOfLine(text[j]) \cap TbdWords # {}

\* C34: in the four generation stages, whatever the collaborator answers
\* the stage returns a candidate and does not raise; an answer that is not
\* usable gives {} or the empty string, and these never pass the stage's
\* contract, so the run goes on to another invocation or to exhaustion;
\* the stage raises, without the collaborator being called, exactly when
\* the index is missing, the input is invalid or nothing is retrieved (for
\* generate_packet: a prior output is missing or invalid), and after a
\* raise the stage is not invoked again.
C34_ThrowVersusReturn ==
  (AnyStage /\ generation.attempts >= 1) =>
    /\ generation.answer # None =>
         /\ generation.thrown = None
         /\ AnswerUnusable => Degenerate(generation.output)
         /\ Degenerate(generation.output) =>
              ~OutputAccepted(generation.stage, generation.output)
    /\ PreconditionFault <=> (generation.thrown # None /\ generation.answer = None
                                /\ ~generation.faulted)
    /\ generation.thrown # None =>
         /\ generation.phase \in {"caught", "returned"}
         /\ generation.phase = "returned" => generation.status = "failed"
    /\ PreconditionFault => generation.attempts = 1

\* A prior output generate_packet reads is not in the output directory.
PriorOutputMissing ==
  generation.files.requirements = None \/ generation.files.concepts = None

\* Both prior outputs are there and are JSON, and one fails its schema.
PriorOutputInvalid ==
  /\ ~PriorOutputMissing
  /\ Get(generation.files.requirements).fmt = "json"
  /\ Get(generation.files.concepts).fmt = "json"
  /\ \/ ~RequirementsOutputSchema(JsonParse(Get(generation.files.requirements)))
     \/ ~ConceptsOutputSchema(JsonParse(Get(generation.files.concepts)))

\* The messages generate_packet raises with, one for each of its checks.
PacketMessages ==
  [input |-> <<"generate_packet stage requires a non-empty primer string as input.">>,
   requirementsMissing |->
     <<"generate_packet stage requires requirements.json in output directory.">>,
   conceptsMissing |-> <<"generate_packet stage requires concepts.json in output directory.">>,
   requirementsInvalid |-> <<"generate_packet stage found invalid requirements.json.">>,
   conceptsInvalid |-> <<"generate_packet stage found invalid concepts.json.">>]

\* C35: in a run of generate_packet whose input is not a non-empty string,
\* or whose output directory lacks requirements.json or concepts.json, or
\* holds one that fails its schema, the first invocation raises before the
\* collaborator is called and there is no second one; the run ends failed,
\* its error is the message raised, which names the check that failed, and
\* packet.md is not written.
C35_PacketPreconditions ==
  (/\ StageIs({"generate_packet"})
   /\ generation.attempts >= 1
   /\ ~InputValid \/ PriorOutputMissing \/ PriorOutputInvalid) =>
    /\ generation.attempts = 1
    /\ generation.thrown # None /\ generation.answer = None /\ ~generation.faulted
    /\ generation.calls = << >>
    /\ generation.files.packet = None
    /\ generation.phase \in {"caught", "returned"}
    /\ ~InputValid => Get(generation.thrown).message = PacketMessages.input
    /\ (InputValid /\ generation.files.requirements = None) =>
         Get(generation.thrown).message = PacketMessages.requirementsMissing
    /\ (InputValid /\ generation.files.requirements # None
          /\ generation.files.concepts = None) =>
         Get(generation.thrown).message = PacketMessages.conceptsMissing
    /\ (InputValid /\ PriorOutputInvalid) =>
         Get(generation.thrown).message
           = (IF ~RequirementsOutputSchema(JsonParse(Get(generation.files.requirements)))
              THEN PacketMessages.requirementsInvalid
              ELSE PacketMessages.conceptsInvalid)
    /\ generation.phase = "returned" =>
         /\ generation.status = "failed"
         /\ generation.error = Some(Get(generation.thrown).message)

\* A run given a primer and a valid requirements.json, with a concepts.json
\* that fails its schema, has ended failed with that message.
C35_Witness ==
  /\ StageIs({"generate_packet"})
  /\ generation.phase = "returned"
  /\ InputValid /\ PriorOutputInvalid
  /\ RequirementsOutputSchema(JsonParse(Get(generation.files.requirements)))
  /\ generation.status = "failed"
  /\ generation.error = Some(PacketMessages.conceptsInvalid)

\* C36 (state part): once callLLM has raised in an invocation of any of the
\* four stages, what the stage raises is that fault, the run does not
\* validate or write anything, and it ends failed with the fault's message
\* as its error.
C36_Propagates ==
  (AnyStage /\ generation.faulted) =>
    /\ generation.thrown = Some(CollaboratorFault)
    /\ generation.phase \in {"caught", "returned"}
    /\ generation.files[generation.stage.outputFilename.base] = None
    /\ generation.phase = "returned" =>
         /\ generation.status = "failed"
         /\ generation.error = Some(MessageOf(CollaboratorFault))

\* C36 (step part): the step after the fault ends the run, with the number
\* of invocations unchanged, however many retries remain.
C36_NotRetried ==
  [][(AnyStage /\ generation.faulted) =>
       /\ generation'.attempts = generation.attempts
       /\ generation'.phase = "returned"
       /\ generation'.status = "failed"]_vars

\* C36: a fault of the collaborator is a raise of the stage and ends the run.
C36_CollaboratorFault == []C36_Propagates /\ C36_NotRetried

\* The collaborator faulted in the second invocation, a retry after a
\* rejected candidate, with one more retry left, and the run has ended.
C36_Witness ==
  /\ AnyStage
  /\ generation.faulted
  /\ generation.phase = "returned"
  /\ generation.attempts = 2
  /\ ~RetriesExhausted(generation.attempts)

=============================================================================
